---- MODULE Spec2Model ----
(***************************************************************************)
(* State-machine model of the inference engine's attention cache           *)
(* (src/src/layers/attention.rs), tensor store (src/src/core/types.rs),    *)
(* container parser (src/src/model_loader) and embedding lookup            *)
(* (src/src/layers/embeddings.rs).                                         *)
(***************************************************************************)
EXTENDS Integers, Sequences, FiniteSets, TLC

VARIABLES
    \* ---- KVCache fields (attention.rs:3-10) ----
    k_cache, v_cache, current_pos, max_seq_len, num_heads, head_dim,
    \* ---- history of the KVCache calls ----
    kv_call,        \* the last call on the cache: its arguments, state before, result
    valid_appends,  \* number of append_kv calls made so far with well-sized k and v
    \* ---- GGUFData fields (core/types.rs:161-171) ----
    version, nb_tensors, nb_key_vals, kv, tensors_metadata, tensors,
    \* ---- history of the GGUFData calls ----
    store_call,     \* the last call on the store: its arguments, state before, result
    loaded_names,   \* the names inserted into the cache by a load so far
    \* ---- the container parser (model_loader/file_loader/file_loader.rs) ----
    container,      \* what the file on disk was written from
    file_bytes,     \* the bytes of the file on disk
    parse_call,     \* the read_file call made, and its outcome
    \* ---- matmul (ops/matmul.rs): its arguments, and the call made ----
    input, weight, output, matmul_call,
    \* ---- load_tensor on its own: the descriptor, the file, the call made ----
    decode_info, payload, decode_call,
    \* ---- rope (ops/rope.rs): the vector, and the call made ----
    vec, rope_call,
    \* ---- Reader::seek on its own: the reader, and the call made ----
    seek_reader, seek_call,
    \* ---- the elementwise kernels: the two inputs, the output, the call made ----
    elem_x, elem_y, elem_out, elem_call,
    \* ---- the tokenizer: the piece cache, the ids encode has returned, the call ----
    id_to_piece, encoded_ids, tok_call

kvVars == <<k_cache, v_cache, current_pos, max_seq_len, num_heads, head_dim,
            kv_call, valid_appends>>

storeVars == <<version, nb_tensors, nb_key_vals, kv, tensors_metadata, tensors, store_call,
               loaded_names>>

parseVars == <<container, file_bytes, parse_call>>

matmulVars == <<input, weight, output, matmul_call>>

decodeVars == <<decode_info, payload, decode_call>>

ropeVars == <<vec, rope_call>>

seekVars == <<seek_reader, seek_call>>

elemVars == <<elem_x, elem_y, elem_out, elem_call>>

tokVars == <<id_to_piece, encoded_ids, tok_call>>

opsVars == <<matmulVars, decodeVars, ropeVars, seekVars, elemVars, tokVars>>

vars == <<k_cache, v_cache, current_pos, max_seq_len, num_heads, head_dim,
          kv_call, valid_appends,
          version, nb_tensors, nb_key_vals, kv, tensors_metadata, tensors, store_call,
          loaded_names, container, file_bytes, parse_call,
          input, weight, output, matmul_call, decode_info, payload, decode_call,
          vec, rope_call, seek_reader, seek_call,
          elem_x, elem_y, elem_out, elem_call, id_to_piece, encoded_ids, tok_call>>

(***************************************************************************)
(* Bounds                                                                  *)
(***************************************************************************)
MaxSeqLen == 2
MaxHeads == 2
MaxHeadDim == 2
MaxAppendCalls == 4

(***************************************************************************)
(* Helpers                                                                 *)
(***************************************************************************)
\* vec![x; n]
Fill(x, n) == [i \in 1..n |-> x]

\* A Rust range slice s[a .. b] (0-based, end exclusive); the caller checks SliceInRange.
Slice(s, a, b) == SubSeq(s, a + 1, b)

SliceInRange(s, a, b) == a <= b /\ b <= Len(s)

\* dst[a .. a + Len(src)].copy_from_slice(src)
CopyInto_fromzero(dst, a, src) ==
    [i \in 1..Len(dst) |-> IF i <= Len(src) THEN src[i] ELSE dst[i]]
CopyInto(dst, a, src) ==
    [i \in 1..Len(dst) |-> IF i > a /\ i <= a + Len(src) THEN src[i - a] ELSE dst[i]]

\* The vectors handed to append_kv: element i of the vector with seed s is s*10+i,
\* so every element names the call and the index it came from.
KSeeds == {1, 2}
VSeeds == {3, 4}
InputVec(seed, len) == [i \in 1..len |-> seed * 10 + i]

(***************************************************************************)
(* KVCache                                                                 *)
(***************************************************************************)
KVNoCall == [op |-> "new"]

\* KVCache::new
KVCacheNew(msl, nh, hd) ==
    /\ k_cache = Fill(0, msl * nh * hd)
    /\ v_cache = Fill(0, msl * nh * hd)
    /\ current_pos = 0
    /\ max_seq_len = msl
    /\ num_heads = nh
    /\ head_dim = hd

\* append_kv line 30: "Check we have space"
KVIsFull_offbyone == current_pos > max_seq_len
KVIsFull == current_pos >= max_seq_len

\* append_kv lines 34-35
KVDimMismatch_konly(k, v) == Len(k) # num_heads * head_dim
KVDimMismatch(k, v) ==
    Len(k) # num_heads * head_dim \/ Len(v) # num_heads * head_dim

\* The value append_kv returns, or "panic" when the slice it writes is out of range.
AppendKvRet(k, v) ==
    LET expected_len == num_heads * head_dim
        start_idx == current_pos * expected_len
    IN  IF KVIsFull THEN [ret |-> "KVCacheFull", max_len |-> max_seq_len]
        ELSE IF KVDimMismatch(k, v) THEN [ret |-> "KVDimMismatch", k_size |-> expected_len]
        ELSE IF ~SliceInRange(k_cache, start_idx, start_idx + expected_len)
                \/ ~SliceInRange(v_cache, start_idx, start_idx + expected_len)
                \/ Len(k) # expected_len \/ Len(v) # expected_len
             THEN [ret |-> "panic"]
        ELSE [ret |-> "Ok"]

\* append_kv with a vector of seed ks/length lk for k and seed vs/length lv for v
append_kv(ks, lk, vs, lv) ==
    LET k == InputVec(ks, lk)
        v == InputVec(vs, lv)
        expected_len == num_heads * head_dim
        start_idx == current_pos * expected_len
        r == AppendKvRet(k, v)
        wellsized == lk = expected_len /\ lv = expected_len
    IN  /\ wellsized => valid_appends < MaxAppendCalls
        /\ IF r.ret = "Ok"
           THEN /\ k_cache' = CopyInto(k_cache, start_idx, k)
                /\ v_cache' = CopyInto(v_cache, start_idx, v)
                /\ current_pos' = current_pos + 1
           ELSE UNCHANGED <<k_cache, v_cache, current_pos>>
        /\ valid_appends' = IF wellsized THEN valid_appends + 1 ELSE valid_appends
        /\ kv_call' = [op |-> "append_kv", k |-> k, v |-> v, res |-> r,
                       pos_before |-> current_pos, k_before |-> k_cache,
                       v_before |-> v_cache, nth_valid |-> valid_appends']
        /\ UNCHANGED <<max_seq_len, num_heads, head_dim>>
        /\ UNCHANGED <<storeVars, parseVars, opsVars>>

\* get_k_slice line 52
KPositionOutOfBounds_strict(position) == position >= current_pos
KPositionOutOfBounds(position) == position > current_pos

\* get_v_slice line 65
VPositionOutOfBounds_loose(position) == position > current_pos
VPositionOutOfBounds(position) == position >= current_pos

\* get_k_slice: the slice returned, or the panic
GetKSliceRet(position, head) ==
    LET start_pos == position * num_heads * head_dim + head * head_dim
    IN  IF KPositionOutOfBounds(position)
        THEN [ret |-> "panic", msg |-> "Position out of bounds for k slice"]
        ELSE IF head >= num_heads
        THEN [ret |-> "panic", msg |-> "Head index is out of bound"]
        ELSE IF ~SliceInRange(k_cache, start_pos, start_pos + head_dim)
        THEN [ret |-> "panic", msg |-> "range end index out of range for slice"]
        ELSE [ret |-> "slice", data |-> Slice(k_cache, start_pos, start_pos + head_dim)]

\* get_v_slice: the slice returned, or the panic
GetVSliceRet(position, head) ==
    LET start_pos == position * num_heads * head_dim + head * head_dim
    IN  IF VPositionOutOfBounds(position)
        THEN [ret |-> "panic", msg |-> "Position out of bounds for v slice"]
        ELSE IF head >= num_heads
        THEN [ret |-> "panic", msg |-> "Head index is out of bound"]
        ELSE IF ~SliceInRange(v_cache, start_pos, start_pos + head_dim)
        THEN [ret |-> "panic", msg |-> "range end index out of range for slice"]
        ELSE [ret |-> "slice", data |-> Slice(v_cache, start_pos, start_pos + head_dim)]

get_k_slice(position, head) ==
    /\ kv_call' = [op |-> "get_k_slice", position |-> position, head |-> head,
                   res |-> GetKSliceRet(position, head), pos_before |-> current_pos,
                   k_before |-> k_cache, v_before |-> v_cache]
    /\ UNCHANGED <<k_cache, v_cache, current_pos, max_seq_len, num_heads, head_dim,
                   valid_appends>>
    /\ UNCHANGED <<storeVars, parseVars, opsVars>>

get_v_slice(position, head) ==
    /\ kv_call' = [op |-> "get_v_slice", position |-> position, head |-> head,
                   res |-> GetVSliceRet(position, head), pos_before |-> current_pos,
                   k_before |-> k_cache, v_before |-> v_cache]
    /\ UNCHANGED <<k_cache, v_cache, current_pos, max_seq_len, num_heads, head_dim,
                   valid_appends>>
    /\ UNCHANGED <<storeVars, parseVars, opsVars>>

KVInit ==
    /\ \E msl \in 0..MaxSeqLen, nh \in 0..MaxHeads, hd \in 0..MaxHeadDim :
           KVCacheNew(msl, nh, hd)
    /\ kv_call = KVNoCall
    /\ valid_appends = 0

AppendKv ==
    \E ks \in KSeeds, vs \in VSeeds,
       lk \in 0..(MaxHeads * MaxHeadDim + 1), lv \in 0..(MaxHeads * MaxHeadDim + 1) :
        /\ lk \in {num_heads * head_dim - 1, num_heads * head_dim, num_heads * head_dim + 1}
        /\ lv \in {num_heads * head_dim - 1, num_heads * head_dim, num_heads * head_dim + 1}
        /\ vs = ks + 2
        /\ append_kv(ks, lk, vs, lv)

GetKSlice == \E position \in 0..(MaxSeqLen + 1), head \in 0..MaxHeads : get_k_slice(position, head)

GetVSlice == \E position \in 0..(MaxSeqLen + 1), head \in 0..MaxHeads : get_v_slice(position, head)

(***************************************************************************)
(* Bit operations on u8 values                                             *)
(***************************************************************************)
RECURSIVE BitAnd(_, _)
BitAnd(a, b) ==
    IF a = 0 \/ b = 0 THEN 0
    ELSE (IF a % 2 = 1 /\ b % 2 = 1 THEN 1 ELSE 0) + 2 * BitAnd(a \div 2, b \div 2)

RECURSIVE BitOr(_, _)
BitOr(a, b) ==
    IF a = 0 THEN b
    ELSE IF b = 0 THEN a
    ELSE (IF a % 2 = 1 \/ b % 2 = 1 THEN 1 ELSE 0) + 2 * BitOr(a \div 2, b \div 2)

\* a >> k
Shr(a, k) == a \div (2 ^ k)

\* (a << k) on a u8
Shl8(a, k) == (a * (2 ^ k)) % 256

RECURSIVE Product(_)
Product(dims) == IF dims = <<>> THEN 1 ELSE Head(dims) * Product(Tail(dims))

CeilDiv(a, b) == (a + b - 1) \div b

Min(a, b) == IF a < b THEN a ELSE b

\* Vec::truncate(k)
Truncate(s, k) == SubSeq(s, 1, Min(k, Len(s)))

\* u16::from_le_bytes
U16LE(b0, b1) == b0 + 256 * b1

\* Option values: None is << >>, Some(x) is <<x>>
None == << >>
Some(x) == <<x>>

(***************************************************************************)
(* Reader (model_loader/file_loader/io.rs)                                 *)
(***************************************************************************)
\* Reader::new: the buffer is a stream over `data` at offset `off`
ReaderNew(data, initial_pos) == [data |-> data, off |-> 0, pos |-> initial_pos]

\* What seek(SeekFrom::Start(p)) on a buffered file reports: the requested offset
FileSeek(p) == p

\* Reader::seek(p), the underlying stream reporting `actual_pos` (-1: the seek failed)
ReaderSeek_unverified(r, p, actual_pos) ==
    IF actual_pos < 0
    THEN [ok |-> FALSE, err |-> [err |-> "io", kind |-> "seek"], rd |-> r]
    ELSE [ok |-> TRUE, rd |-> [r EXCEPT !.off = actual_pos, !.pos = p]]
ReaderSeek(r, p, actual_pos) ==
    IF actual_pos < 0
    THEN [ok |-> FALSE, err |-> [err |-> "io", kind |-> "seek"], rd |-> r]
    ELSE IF actual_pos # p
    THEN [ok |-> FALSE,
          err |-> [err |-> "Seek failed", requested |-> p, got |-> actual_pos],
          rd |-> [r EXCEPT !.off = actual_pos]]
    ELSE [ok |-> TRUE, rd |-> [r EXCEPT !.off = p, !.pos = p]]

\* Reader::read_bytes(size): read_exact, then pos += size
ReadBytes(r, size) ==
    IF r.off + size <= Len(r.data)
    THEN [ok |-> TRUE,
          bytes |-> SubSeq(r.data, r.off + 1, r.off + size),
          rd |-> [r EXCEPT !.off = r.off + size, !.pos = r.pos + size]]
    ELSE [ok |-> FALSE,
          err |-> [err |-> "io", kind |-> "UnexpectedEof"],
          rd |-> [r EXCEPT !.off = IF r.off > Len(r.data) THEN r.off ELSE Len(r.data)]]

(***************************************************************************)
(* Tensor decoders (model_loader/file_loader/tensor_loader.rs)             *)
(***************************************************************************)
MkTensor(tensor_type, name, dimensions, num_elements, f32_data, quantized_data, scales, mins) ==
    [tensor_type |-> tensor_type, name |-> name, dimensions |-> dimensions,
     num_elements |-> num_elements, f32_data |-> f32_data,
     quantized_data |-> quantized_data, scales |-> scales, mins |-> mins]

\* The loop of load_f32_tensor: n times read_f32; an f32 is kept as its 4 bytes
RECURSIVE ReadF32s(_, _, _)
ReadF32s(r, n, data) ==
    IF n = 0 THEN [ok |-> TRUE, data |-> data, rd |-> r]
    ELSE LET rb == ReadBytes(r, 4)
         IN  IF ~rb.ok THEN [ok |-> FALSE, err |-> rb.err, rd |-> rb.rd]
             ELSE ReadF32s(rb.rd, n - 1, Append(data, rb.bytes))

load_f32_tensor(r, tensor_info, num_elements) ==
    LET rd == ReadF32s(r, num_elements, << >>)
    IN  IF ~rd.ok THEN [ok |-> FALSE, err |-> rd.err, rd |-> rd.rd]
        ELSE IF Len(rd.data) # num_elements
        THEN [ok |-> FALSE, rd |-> rd.rd,
              err |-> [err |-> "F32 element count", name |-> tensor_info.name]]
        ELSE [ok |-> TRUE, rd |-> rd.rd,
              tensor |-> MkTensor("F32", tensor_info.name, tensor_info.dimensions,
                                  num_elements, Some(rd.data), None, None, None)]

\* extract_scale_min_k4(j, scales): scales is the 12-byte array, j in 0..7
extract_scale_min_k4(j, scales) ==
    IF j < 4
    THEN <<BitAnd(scales[j + 1], 63), BitAnd(scales[j + 4 + 1], 63)>>
    ELSE LET low_bits == scales[j + 4 + 1]
             scale_low == BitAnd(low_bits, 15)
             min_low == BitAnd(Shr(low_bits, 4), 15)
             scale_high == BitAnd(Shr(scales[j - 4 + 1], 6), 3)
             min_high == BitAnd(Shr(scales[j + 1], 6), 3)
         IN  <<BitOr(scale_low, Shl8(scale_high, 4)), BitOr(min_low, Shl8(min_high, 4))>>

\* get_quantized_value_q4k(pos, qs): qs is the 128-byte array, pos in 0..255
get_quantized_value_q4k(pos, qs) ==
    LET group == pos \div 64
        offset_in_group == pos % 64
        byte_idx == group * 32 + (offset_in_group % 32)
        nibble == offset_in_group \div 32
        byte == qs[byte_idx + 1]
    IN  IF nibble = 0 THEN BitAnd(byte, 15) ELSE BitAnd(Shr(byte, 4), 15)

\* The four values of the Q6_K triplet (byte0, byte1, byte2), in push order
Q6KTriplet_swapped(byte0, byte1, byte2) ==
    << BitAnd(byte0, 63),
       BitOr(Shr(byte1, 4), Shl8(BitAnd(byte2, 3), 4)),
       BitOr(Shr(byte0, 6), Shl8(BitAnd(byte1, 15), 2)),
       Shr(byte2, 2) >>
Q6KTriplet(byte0, byte1, byte2) ==
    << BitAnd(byte0, 63),
       BitOr(Shr(byte0, 6), Shl8(BitAnd(byte1, 15), 2)),
       BitOr(Shr(byte1, 4), Shl8(BitAnd(byte2, 3), 4)),
       Shr(byte2, 2) >>

\* scales and mins pushed for all superblocks of block_data (block_size bytes each):
\* entry s is <<d * scale_6bit, dmin * min_6bit>>, each product kept as the pair
\* (half-float bits of d, 6-bit code)
SuperblockScales(block_data, num_superblocks, block_size) ==
    [s \in 1..(num_superblocks * 8) |->
        LET block_start == ((s - 1) \div 8) * block_size
            sub_block_idx == (s - 1) % 8
            d == U16LE(block_data[block_start + 1], block_data[block_start + 2])
            dmin == U16LE(block_data[block_start + 3], block_data[block_start + 4])
            scales_bytes == SubSeq(block_data, block_start + 4 + 1, block_start + 4 + 12)
            sm == extract_scale_min_k4(sub_block_idx, scales_bytes)
        IN  [scale |-> [d |-> d, code |-> sm[1]], min |-> [d |-> dmin, code |-> sm[2]]]]

\* quantized_data after the Q4_K superblock loop: each superblock pushes its 256
\* elements in order until num_elements have been pushed
Q4KQuantized(block_data, num_superblocks, num_elements) ==
    [e \in 1..Min(num_elements, num_superblocks * 256) |->
        LET block_start == ((e - 1) \div 256) * 144
            element_pos == (e - 1) % 256
            qs_bytes == SubSeq(block_data, block_start + 16 + 1, block_start + 16 + 128)
        IN  get_quantized_value_q4k(element_pos, qs_bytes)]

\* The pushes of one triplet (lines 303-312): value0, then each next value while
\* fewer than num_elements have been pushed
PushTriplet(quantized_data, values, num_elements) ==
    quantized_data \o SubSeq(values, 1, Min(4, num_elements - Len(quantized_data)))

\* The while loop of lines 293-315 over the packed bytes of one superblock
RECURSIVE Q6KUnpack(_, _, _, _)
Q6KUnpack(qs_bytes, quantized_data, num_elements, byte_idx) ==
    IF ~(byte_idx + 2 < Len(qs_bytes) /\ Len(quantized_data) < num_elements)
    THEN quantized_data
    ELSE Q6KUnpack(qs_bytes,
                   PushTriplet(quantized_data,
                               Q6KTriplet(qs_bytes[byte_idx + 1], qs_bytes[byte_idx + 2],
                                          qs_bytes[byte_idx + 3]),
                               num_elements),
                   num_elements, byte_idx + 3)

\* The superblock loop of load_q6k_tensor, from block_idx on
RECURSIVE Q6KBlocks(_, _, _, _, _)
Q6KBlocks(block_data, num_superblocks, num_elements, block_idx, quantized_data) ==
    IF block_idx >= num_superblocks THEN quantized_data
    ELSE Q6KBlocks(block_data, num_superblocks, num_elements, block_idx + 1,
                   Q6KUnpack(SubSeq(block_data, block_idx * 208 + 16 + 1,
                                    block_idx * 208 + 16 + 192),
                             quantized_data, num_elements, 0))

\* quantized_data after the Q6_K superblock loop
Q6KQuantized(block_data, num_superblocks, num_elements) ==
    Q6KBlocks(block_data, num_superblocks, num_elements, 0, << >>)

\* The number of scales and mins kept (lines 135-136, 320-321)
KeptScales_all(num_elements) == CeilDiv(num_elements, 256) * 8
KeptScales(num_elements) == CeilDiv(num_elements, 32)

\* load_q4k_tensor / load_q6k_tensor: kind is "Q4K" (144-byte superblocks) or
\* "Q6K" (208-byte superblocks)
load_qk_tensor(r, tensor_info, num_elements, kind) ==
    LET block_size == IF kind = "Q4K" THEN 144 ELSE 208
        num_superblocks == CeilDiv(num_elements, 256)
        total_bytes == num_superblocks * block_size
        rb == ReadBytes(r, total_bytes)
    IN  IF ~rb.ok
        THEN [ok |-> FALSE, rd |-> rb.rd,
              err |-> [err |-> "Failed to read", kind |-> kind, name |-> tensor_info.name,
                       total_bytes |-> total_bytes, offset |-> tensor_info.offset,
                       cause |-> rb.err]]
        ELSE LET all == SuperblockScales(rb.bytes, num_superblocks, block_size)
                 quantized_data ==
                     Truncate(IF kind = "Q4K"
                              THEN Q4KQuantized(rb.bytes, num_superblocks, num_elements)
                              ELSE Q6KQuantized(rb.bytes, num_superblocks, num_elements),
                              num_elements)
                 scales == Truncate([s \in 1..Len(all) |-> all[s].scale], KeptScales(num_elements))
                 mins == Truncate([s \in 1..Len(all) |-> all[s].min], KeptScales(num_elements))
             IN  IF Len(quantized_data) # num_elements
                 THEN [ok |-> FALSE, rd |-> rb.rd,
                       err |-> [err |-> "quantized element count", kind |-> kind,
                                name |-> tensor_info.name]]
                 ELSE [ok |-> TRUE, rd |-> rb.rd,
                       tensor |-> MkTensor(kind, tensor_info.name, tensor_info.dimensions,
                                           num_elements, None, Some(quantized_data),
                                           Some(scales), Some(mins))]

\* load_tensor(reader, tensor_info)
load_tensor_noseek(r, tensor_info) ==
    LET num_elements == Product(tensor_info.dimensions)
    IN  CASE tensor_info.type_id = 0 -> load_f32_tensor(r, tensor_info, num_elements)
          [] tensor_info.type_id = 12 -> load_qk_tensor(r, tensor_info, num_elements, "Q4K")
          [] tensor_info.type_id = 14 -> load_qk_tensor(r, tensor_info, num_elements, "Q6K")
          [] OTHER -> [ok |-> FALSE, rd |-> r,
                       err |-> [err |-> "Unsupported tensor type_id",
                                type_id |-> tensor_info.type_id]]
load_tensor(r, tensor_info) ==
    LET num_elements == Product(tensor_info.dimensions)
        sk == ReaderSeek(r, tensor_info.offset, FileSeek(tensor_info.offset))
    IN  IF ~sk.ok
        THEN [ok |-> FALSE, rd |-> sk.rd,
              err |-> [err |-> "Failed to seek", offset |-> tensor_info.offset,
                       name |-> tensor_info.name, cause |-> sk.err]]
        ELSE CASE tensor_info.type_id = 0 -> load_f32_tensor(sk.rd, tensor_info, num_elements)
               [] tensor_info.type_id = 12 -> load_qk_tensor(sk.rd, tensor_info, num_elements, "Q4K")
               [] tensor_info.type_id = 14 -> load_qk_tensor(sk.rd, tensor_info, num_elements, "Q6K")
               [] OTHER -> [ok |-> FALSE, rd |-> sk.rd,
                            err |-> [err |-> "Unsupported tensor type_id",
                                     type_id |-> tensor_info.type_id]]

(***************************************************************************)
(* The files on disk                                                       *)
(***************************************************************************)
FileLen == 224

\* Two files with different contents; any other path does not exist.
ModelFile == [i \in 1..FileLen |-> ((i - 1) * 37 + ((i - 1) \div 7) * 5 + 11) % 256]
OtherFile == [i \in 1..FileLen |-> ((i - 1) * 91 + ((i - 1) \div 5) * 3 + 200) % 256]

Paths == {"model.gguf", "other.gguf", "missing.gguf"}

\* File::open(path)
FileOpen(path) ==
    CASE path = "model.gguf" -> [ok |-> TRUE, data |-> ModelFile]
      [] path = "other.gguf" -> [ok |-> TRUE, data |-> OtherFile]
      [] OTHER -> [ok |-> FALSE, err |-> [err |-> "io", kind |-> "NotFound"]]

(***************************************************************************)
(* GGUFData (core/types.rs)                                                *)
(***************************************************************************)
TensorInfo(name, dimensions, type_id, offset) ==
    [name |-> name, n_dimensions |-> Len(dimensions), dimensions |-> dimensions,
     type_id |-> type_id, offset |-> offset]

\* The descriptors a directory is drawn from: an F32 and a Q4_K tensor under one
\* name, an unsupported kind, and a payload cut short by the end of the file (the
\* embedding lookup's directories add Q6_K), and a second F32 tensor under a name of
\* its own.
DescriptorPool ==
    { TensorInfo("token_embd.weight", <<2, 3>>, 0, 0),
      TensorInfo("token_embd.weight", <<3, 2>>, 12, 8),
      TensorInfo("blk.0.w", <<4>>, 1, 0),
      TensorInfo("embeddings.weight", <<2, 2>>, 0, FileLen - 8),
      TensorInfo("output_norm.weight", <<2>>, 0, 16) }

MaxDir == 2

RECURSIVE SeqsUpTo(_, _)
SeqsUpTo(S, n) ==
    IF n = 0 THEN { << >> }
    ELSE LET shorter == SeqsUpTo(S, n - 1)
         IN  shorter \cup { Append(s, x) : s \in { t \in shorter : Len(t) = n - 1 }, x \in S }

Directories == SeqsUpTo(DescriptorPool, MaxDir)

TensorNames == { d.name : d \in DescriptorPool } \cup { "output.weight" }

MetadataMap ==
    [k \in {"general.name", "llama.block_count"} |->
        IF k = "general.name" THEN [type |-> "String", val |-> "m"]
        ELSE [type |-> "Uint32", val |-> 2]]

MetadataKeys == DOMAIN MetadataMap \cup { "general.missing" }

\* GGUFData::new
GGUFDataNew(ver, nt, nkv, kvmap, tm) ==
    /\ version = ver
    /\ nb_tensors = nt
    /\ nb_key_vals = nkv
    /\ kv = kvmap
    /\ tensors_metadata = tm
    /\ tensors = << >>

StoreNoCall == [op |-> "new"]

\* What the next call remembers of the call before it: the name it loaded, when it
\* was a load_single_tensor that returned Ok
CallSummary(c) ==
    IF c.op = "load_single_tensor"
    THEN (IF c.res.ret = "Ok" THEN c.tensor_name ELSE "")
    ELSE ""

Range(seq) == { seq[i] : i \in 1..Len(seq) }

\* HashMap::insert
MapInsert(m, key, val) ==
    [x \in DOMAIN m \cup {key} |-> IF x = key THEN val ELSE m[x]]

\* HashMap::get
MapGet(m, key) == IF key \in DOMAIN m THEN Some(m[key]) ELSE None

\* The body of the for loop of load_tensors from entry idx (0-based) on: the cache,
\* the names decoded so far, and the error of the first entry that fails
RECURSIVE LoadTensorsLoop_skipcached(_, _, _, _)
LoadTensorsLoop_skipcached(idx, r, cache, decoded) ==
    IF idx >= Len(tensors_metadata)
    THEN [ok |-> TRUE, cache |-> cache, decoded |-> decoded]
    ELSE LET tensor_info == tensors_metadata[idx + 1]
             lt == load_tensor(r, tensor_info)
         IN  IF tensor_info.name \in DOMAIN cache
             THEN LoadTensorsLoop_skipcached(idx + 1, r, cache, decoded)
             ELSE IF ~lt.ok
             THEN [ok |-> FALSE, cache |-> cache, decoded |-> decoded,
                   err |-> [err |-> "Failed to load tensor", idx |-> idx + 1,
                            total_tensors |-> Len(tensors_metadata),
                            name |-> tensor_info.name, offset |-> tensor_info.offset,
                            type_id |-> tensor_info.type_id, cause |-> lt.err]]
             ELSE LoadTensorsLoop_skipcached(idx + 1, lt.rd,
                                             MapInsert(cache, tensor_info.name, lt.tensor),
                                             Append(decoded, tensor_info.name))

RECURSIVE LoadTensorsLoop_skip(_, _, _, _)
LoadTensorsLoop_skip(idx, r, cache, decoded) ==
    IF idx >= Len(tensors_metadata)
    THEN [ok |-> TRUE, cache |-> cache, decoded |-> decoded]
    ELSE LET tensor_info == tensors_metadata[idx + 1]
             lt == load_tensor(r, tensor_info)
         IN  IF ~lt.ok
             THEN LET rest == LoadTensorsLoop_skip(idx + 1, lt.rd, cache, decoded)
                  IN  [ok |-> FALSE, cache |-> rest.cache, decoded |-> rest.decoded,
                       err |-> [err |-> "Failed to load tensor", idx |-> idx + 1,
                                total_tensors |-> Len(tensors_metadata),
                                name |-> tensor_info.name, offset |-> tensor_info.offset,
                                type_id |-> tensor_info.type_id, cause |-> lt.err]]
             ELSE LoadTensorsLoop_skip(idx + 1, lt.rd,
                                       MapInsert(cache, tensor_info.name, lt.tensor),
                                       Append(decoded, tensor_info.name))

RECURSIVE LoadTensorsLoop(_, _, _, _)
LoadTensorsLoop(idx, r, cache, decoded) ==
    IF idx >= Len(tensors_metadata)
    THEN [ok |-> TRUE, cache |-> cache, decoded |-> decoded]
    ELSE LET tensor_info == tensors_metadata[idx + 1]
             lt == load_tensor(r, tensor_info)
         IN  IF ~lt.ok
             THEN [ok |-> FALSE, cache |-> cache, decoded |-> decoded,
                   err |-> [err |-> "Failed to load tensor", idx |-> idx + 1,
                            total_tensors |-> Len(tensors_metadata),
                            name |-> tensor_info.name, offset |-> tensor_info.offset,
                            type_id |-> tensor_info.type_id, cause |-> lt.err]]
             ELSE LoadTensorsLoop(idx + 1, lt.rd,
                                  MapInsert(cache, tensor_info.name, lt.tensor),
                                  Append(decoded, tensor_info.name))

\* What load_tensors(file_path) returns and does to the cache
LoadTensorsRun_fresh(file_path) ==
    LET file == FileOpen(file_path)
    IN  IF ~file.ok
        THEN [ok |-> FALSE, err |-> file.err, cache |-> tensors, decoded |-> << >>]
        ELSE LoadTensorsLoop(0, ReaderNew(file.data, 0), << >>, << >>)
LoadTensorsRun(file_path) ==
    LET file == FileOpen(file_path)
    IN  IF ~file.ok
        THEN [ok |-> FALSE, err |-> file.err, cache |-> tensors, decoded |-> << >>]
        ELSE LoadTensorsLoop(0, ReaderNew(file.data, 0), tensors, << >>)

\* tensors_metadata.iter().find(|t| t.name == tensor_name): the index found, or 0
FindTensorInfo_any(tensor_name) == IF Len(tensors_metadata) > 0 THEN 1 ELSE 0
FindTensorInfo(tensor_name) ==
    IF \E i \in 1..Len(tensors_metadata) : tensors_metadata[i].name = tensor_name
    THEN CHOOSE i \in 1..Len(tensors_metadata) :
            /\ tensors_metadata[i].name = tensor_name
            /\ \A j \in 1..(i - 1) : tensors_metadata[j].name # tensor_name
    ELSE 0

\* load_single_tensor line 258: "Check if already loaded"
AlreadyLoaded_never(cache, tensor_name) == FALSE
AlreadyLoaded(cache, tensor_name) == tensor_name \in DOMAIN cache

\* What load_single_tensor(file_path, tensor_name) returns and does to `cache`
LoadSingleTensorRun(cache, file_path, tensor_name) ==
    LET found == FindTensorInfo(tensor_name)
    IN  IF found = 0
        THEN [ok |-> FALSE, cache |-> cache, decoded |-> << >>, opened |-> FALSE,
              err |-> [err |-> "not found in model metadata", name |-> tensor_name]]
        ELSE IF AlreadyLoaded(cache, tensor_name)
        THEN [ok |-> TRUE, cache |-> cache, decoded |-> << >>, opened |-> FALSE]
        ELSE LET file == FileOpen(file_path)
             IN  IF ~file.ok
                 THEN [ok |-> FALSE, cache |-> cache, decoded |-> << >>, opened |-> TRUE,
                       err |-> file.err]
                 ELSE LET lt == load_tensor(ReaderNew(file.data, 0), tensors_metadata[found])
                      IN  IF ~lt.ok
                          THEN [ok |-> FALSE, cache |-> cache, decoded |-> << >>,
                                opened |-> TRUE, err |-> lt.err]
                          ELSE [ok |-> TRUE, opened |-> TRUE,
                                cache |-> MapInsert(cache, tensor_name, lt.tensor),
                                decoded |-> <<tensor_name>>]

Result(run) == IF run.ok THEN [ret |-> "Ok"] ELSE [ret |-> "Err", err |-> run.err]

load_tensors(file_path) ==
    LET run == LoadTensorsRun(file_path)
    IN  /\ tensors' = run.cache
        /\ store_call' = [op |-> "load_tensors", file_path |-> file_path,
                          res |-> Result(run), decoded |-> run.decoded,
                          tensors_before |-> tensors, prev_single_ok |-> CallSummary(store_call)]
        /\ loaded_names' = loaded_names \cup Range(run.decoded)
        /\ UNCHANGED <<version, nb_tensors, nb_key_vals, kv, tensors_metadata>>
        /\ UNCHANGED <<kvVars, parseVars, opsVars>>

load_single_tensor(file_path, tensor_name) ==
    LET run == LoadSingleTensorRun(tensors, file_path, tensor_name)
    IN  /\ tensors' = run.cache
        /\ store_call' = [op |-> "load_single_tensor", file_path |-> file_path,
                          tensor_name |-> tensor_name, res |-> Result(run),
                          decoded |-> run.decoded, opened |-> run.opened,
                          tensors_before |-> tensors, prev_single_ok |-> CallSummary(store_call)]
        /\ loaded_names' = loaded_names \cup Range(run.decoded)
        /\ UNCHANGED <<version, nb_tensors, nb_key_vals, kv, tensors_metadata>>
        /\ UNCHANGED <<kvVars, parseVars, opsVars>>

\* get_tensor(name): self.tensors.get(name)
GetTensorRun_lazy(cache, name) ==
    LET run == LoadSingleTensorRun(cache, "model.gguf", name)
    IN  [cache |-> run.cache, decoded |-> run.decoded, ret |-> MapGet(run.cache, name)]
GetTensorRun(cache, name) == [cache |-> cache, decoded |-> << >>, ret |-> MapGet(cache, name)]

get_tensor(name) ==
    LET run == GetTensorRun(tensors, name)
    IN  /\ tensors' = run.cache
        /\ store_call' = [op |-> "get_tensor", name |-> name, res |-> run.ret,
                          decoded |-> run.decoded, tensors_before |-> tensors,
                          kv_before |-> kv, metadata_before |-> tensors_metadata,
                          prev_single_ok |-> CallSummary(store_call)]
        /\ loaded_names' = loaded_names \cup Range(run.decoded)
        /\ UNCHANGED <<version, nb_tensors, nb_key_vals, kv, tensors_metadata>>
        /\ UNCHANGED <<kvVars, parseVars, opsVars>>

\* get_metadata(key): self.kv.get(key)
get_metadata(key) ==
    /\ store_call' = [op |-> "get_metadata", key |-> key, res |-> MapGet(kv, key),
                      decoded |-> << >>, tensors_before |-> tensors,
                      kv_before |-> kv, metadata_before |-> tensors_metadata,
                      prev_single_ok |-> CallSummary(store_call)]
    /\ UNCHANGED <<version, nb_tensors, nb_key_vals, kv, tensors_metadata, tensors,
                   loaded_names, container, file_bytes, parse_call,
          input, weight, output, matmul_call, decode_info, payload, decode_call>>
    /\ UNCHANGED <<kvVars, parseVars, opsVars>>

(***************************************************************************)
(* Embedding lookup (layers/embeddings.rs)                                 *)
(***************************************************************************)
EmbeddingTensorNames == <<"token_embd.weight", "tok_embeddings.weight", "embeddings.weight">>

\* embedding_tensor_names.iter().find(..): index of the first candidate name that
\* the directory holds, or 0
FindEmbeddingName ==
    LET held(i) == \E j \in 1..Len(tensors_metadata) :
                       tensors_metadata[j].name = EmbeddingTensorNames[i]
    IN  IF \E i \in 1..3 : held(i)
        THEN CHOOSE i \in 1..3 : held(i) /\ \A h \in 1..(i - 1) : ~held(h)
        ELSE 0

\* lines 82-88: (hidden_dim, vocab_size) of a 2-D tensor
HiddenAndVocab(dims) ==
    IF dims[1] < dims[2] THEN <<dims[1], dims[2]>> ELSE <<dims[2], dims[1]>>

\* line 92
OutOfVocab_offbyone(token_id, vocab_size) == token_id > vocab_size
OutOfVocab(token_id, vocab_size) == token_id >= vocab_size

\* The row of one token id, or a panic when an index is out of range
EmbeddingRow(tensor, token_id, hidden_dim) ==
    LET row_start == token_id * hidden_dim
    IN  IF tensor.tensor_type = "F32"
        THEN LET embedding_data == tensor.f32_data[1]
             IN  IF ~SliceInRange(embedding_data, row_start, row_start + hidden_dim)
                 THEN [ok |-> FALSE]
                 ELSE [ok |-> TRUE,
                       row |-> Slice(embedding_data, row_start, row_start + hidden_dim)]
        ELSE LET quantized_data == tensor.quantized_data[1]
                 scales == tensor.scales[1]
                 mins == tensor.mins[1]
                 inrange(dim_idx) ==
                     LET element_idx == row_start + dim_idx
                         block_idx == element_idx \div 32
                     IN  /\ element_idx < Len(quantized_data)
                         /\ block_idx < Len(scales)
                         /\ block_idx < Len(mins)
             IN  IF \E dim_idx \in 0..(hidden_dim - 1) : ~inrange(dim_idx)
                 THEN [ok |-> FALSE]
                 ELSE [ok |-> TRUE,
                       row |-> [i \in 1..hidden_dim |->
                                  LET element_idx == row_start + (i - 1)
                                      block_idx == element_idx \div 32
                                  IN  [quantized |-> quantized_data[element_idx + 1],
                                       scale |-> scales[block_idx + 1],
                                       min |-> mins[block_idx + 1]]]]

\* lines 100-183: the rows of all token ids
EmbeddingRows(tensor, token_ids, hidden_dim) ==
    IF tensor.tensor_type = "F32" /\ tensor.f32_data = None
    THEN [ret |-> "Err", err |-> [err |-> "F32 embedding tensor has no data"]]
    ELSE IF tensor.tensor_type # "F32"
            /\ (tensor.quantized_data = None \/ tensor.scales = None \/ tensor.mins = None)
    THEN [ret |-> "Err", err |-> [err |-> "embedding tensor missing data"]]
    ELSE LET rows == [i \in 1..Len(token_ids) |-> EmbeddingRow(tensor, token_ids[i], hidden_dim)]
         IN  IF \E i \in 1..Len(token_ids) : ~rows[i].ok
             THEN [ret |-> "panic"]
             ELSE [ret |-> "Ok", rows |-> [i \in 1..Len(token_ids) |-> rows[i].row]]

\* lines 67-183: the lookup in the tensor cached under embedding_tensor_name
LookupInTensor(embedding_tensor, token_ids) ==
    LET dims == embedding_tensor.dimensions
        hidden_dim == HiddenAndVocab(dims)[1]
        vocab_size == HiddenAndVocab(dims)[2]
        bad == { i \in 1..Len(token_ids) : OutOfVocab(token_ids[i], vocab_size) }
    IN  IF Len(dims) # 2
        THEN [ret |-> "Err", err |-> [err |-> "Expected 2D embedding tensor", dims |-> dims]]
        ELSE IF bad # {}
        THEN [ret |-> "Err",
              err |-> [err |-> "out of vocabulary range",
                       token_id |-> token_ids[CHOOSE i \in bad : \A j \in bad : i <= j],
                       vocab_size |-> vocab_size]]
        ELSE EmbeddingRows(embedding_tensor, token_ids, hidden_dim)

\* lines 62-183, `ld` being the outcome of the lazy load of line 64
LookupAfterLoad(ld, embedding_tensor_name, token_ids) ==
    [cache |-> ld.cache, decoded |-> ld.decoded, name |-> embedding_tensor_name,
     res |-> IF ~ld.ok THEN [ret |-> "Err", err |-> ld.err]
             ELSE IF MapGet(ld.cache, embedding_tensor_name) = None THEN [ret |-> "panic"]
             ELSE LookupInTensor(ld.cache[embedding_tensor_name], token_ids)]

\* What lookup_embeddings(gguf_data, file_path, token_ids) returns and does to the cache
LookupEmbeddingsRun(file_path, token_ids) ==
    IF FindEmbeddingName = 0
    THEN [cache |-> tensors, decoded |-> << >>, name |-> "",
          res |-> [ret |-> "Err", err |-> [err |-> "Embedding tensor not found in metadata"]]]
    ELSE LookupAfterLoad(
            IF MapGet(tensors, EmbeddingTensorNames[FindEmbeddingName]) = None
            THEN LoadSingleTensorRun(tensors, file_path, EmbeddingTensorNames[FindEmbeddingName])
            ELSE [ok |-> TRUE, cache |-> tensors, decoded |-> << >>],
            EmbeddingTensorNames[FindEmbeddingName], token_ids)

\* The state change of lookup_embeddings, `run` being its outcome
LookupCommit(file_path, token_ids, run) ==
    /\ tensors' = run.cache
    /\ store_call' = [op |-> "lookup_embeddings", file_path |-> file_path,
                      token_ids |-> token_ids, res |-> run.res, name |-> run.name,
                      decoded |-> run.decoded, tensors_before |-> tensors,
                      prev_single_ok |-> CallSummary(store_call)]
    /\ loaded_names' = loaded_names \cup Range(run.decoded)
    /\ UNCHANGED <<version, nb_tensors, nb_key_vals, kv, tensors_metadata>>
    /\ UNCHANGED <<kvVars, parseVars, opsVars>>

lookup_embeddings(file_path, token_ids) ==
    LookupCommit(file_path, token_ids, LookupEmbeddingsRun(file_path, token_ids))

(***************************************************************************)
(* Container parser (model_loader/parser.rs, model_loader/file_loader)     *)
(*                                                                         *)
(* A String is the sequence of its bytes.  A call returns                  *)
(*   [st |-> "Ok", val |-> v, rd |-> reader after the call],               *)
(*   [st |-> "Err", err |-> e]   or   [st |-> "panic", msg |-> m].         *)
(***************************************************************************)
\* The largest integer of the model; a decoded u32 or u64 at or above it
\* is represented by it (as a length it exceeds the length of every file modelled)
IntCap == 2147483647

\* uN::from_le_bytes of at most 3 bytes
RECURSIVE LEValue(_)
LEValue(bytes) == IF bytes = << >> THEN 0 ELSE Head(bytes) + 256 * LEValue(Tail(bytes))

\* u32::from_le_bytes / u64::from_le_bytes
UnsignedLE(bytes) ==
    IF (\E i \in 5..Len(bytes) : bytes[i] # 0) \/ (Len(bytes) >= 4 /\ bytes[4] >= 128)
    THEN IntCap
    ELSE LEValue(SubSeq(bytes, 1, Min(3, Len(bytes))))
         + (IF Len(bytes) >= 4 THEN bytes[4] * 16777216 ELSE 0)

\* i8::from_le_bytes, i16::from_le_bytes, i32::from_le_bytes
SignedLE(bytes) ==
    LET top == bytes[Len(bytes)]
        low == LEValue(SubSeq(bytes, 1, Len(bytes) - 1))
        scale == CASE Len(bytes) = 1 -> 1 [] Len(bytes) = 2 -> 256 [] OTHER -> 16777216
    IN  low + scale * (IF top >= 128 THEN top - 256 ELSE top)

ReadOk(val, rd) == [st |-> "Ok", val |-> val, rd |-> rd]

\* Reader::read_bytes, its outcome in the form above
read_bytes(r, size) ==
    LET rb == ReadBytes(r, size)
    IN  IF rb.ok THEN ReadOk(rb.bytes, rb.rd) ELSE [st |-> "Err", err |-> rb.err]

\* The `?` operator: on Ok go on with Next, otherwise return the failure
Try(res, Next(_)) == IF res.st = "Ok" THEN Next(res) ELSE res

\* read_bytes(size)? followed by a conversion of the bytes read
ReadScalar(r, size, Conv(_)) ==
    Try(read_bytes(r, size), LAMBDA b : ReadOk(Conv(b.val), b.rd))

\* The bits of an f32, f64, u64 or i64 value: the bytes as read
RawBits(bytes) == bytes

read_u8(r) == ReadScalar(r, 1, UnsignedLE)
read_i8(r) == ReadScalar(r, 1, SignedLE)
read_u16(r) == ReadScalar(r, 2, UnsignedLE)
read_i16(r) == ReadScalar(r, 2, SignedLE)
read_u32(r) == ReadScalar(r, 4, UnsignedLE)
read_i32(r) == ReadScalar(r, 4, SignedLE)
read_f32(r) == ReadScalar(r, 4, RawBits)
read_u64(r) == ReadScalar(r, 8, UnsignedLE)
read_i64(r) == ReadScalar(r, 8, RawBits)
read_f64(r) == ReadScalar(r, 8, RawBits)

BoolOfByte(b) ==
    IF b.val[1] = 0 THEN ReadOk(FALSE, b.rd)
    ELSE IF b.val[1] = 1 THEN ReadOk(TRUE, b.rd)
    ELSE [st |-> "panic", msg |-> "Not a boolean value!"]

read_bool(r) == Try(read_bytes(r, 1), BoolOfByte)

\* b is a UTF-8 continuation byte within lo..hi
Cont(bytes, i, lo, hi) == i <= Len(bytes) /\ bytes[i] >= lo /\ bytes[i] <= hi

\* String::from_utf8 accepts the bytes from index i on
RECURSIVE Utf8From(_, _)
Utf8From(bytes, i) ==
    IF i > Len(bytes) THEN TRUE
    ELSE LET b == bytes[i]
         IN  CASE b <= 127 -> Utf8From(bytes, i + 1)
               [] b >= 194 /\ b <= 223 ->
                    Cont(bytes, i + 1, 128, 191) /\ Utf8From(bytes, i + 2)
               [] b >= 224 /\ b <= 239 ->
                    /\ Cont(bytes, i + 1, IF b = 224 THEN 160 ELSE 128,
                                          IF b = 237 THEN 159 ELSE 191)
                    /\ Cont(bytes, i + 2, 128, 191)
                    /\ Utf8From(bytes, i + 3)
               [] b >= 240 /\ b <= 244 ->
                    /\ Cont(bytes, i + 1, IF b = 240 THEN 144 ELSE 128,
                                          IF b = 244 THEN 143 ELSE 191)
                    /\ Cont(bytes, i + 2, 128, 191)
                    /\ Cont(bytes, i + 3, 128, 191)
                    /\ Utf8From(bytes, i + 4)
               [] OTHER -> FALSE

\* String::from_utf8(bytes)?
StringFromUtf8(bytes, rd) ==
    IF Utf8From(bytes, 1) THEN ReadOk(bytes, rd)
    ELSE [st |-> "Err", err |-> [err |-> "FromUtf8Error"]]

\* The length-prefixed string of read_string and get_k: `len` is the outcome of
\* reading the 8-byte length
LengthPrefixed(len) ==
    Try(len, LAMBDA l :
        Try(read_bytes(l.rd, l.val), LAMBDA b : StringFromUtf8(b.val, b.rd)))

read_string(r) == LengthPrefixed(read_u64(r))

\* enum DataType, in the order of its codes
DataTypeNames ==
    <<"Uint8", "Int8", "Uint16", "Int16", "Uint32", "Int32", "Float32", "Bool",
      "String", "Array", "Uint64", "Int64", "Float64">>

u32_to_data_type(value) ==
    IF value <= 12 THEN [st |-> "Ok", val |-> DataTypeNames[value + 1]]
    ELSE [st |-> "Err", err |-> [err |-> "Unknown value type code"]]

\* A Data value: the variant and what it holds
Data(type, val) == [type |-> type, val |-> val]

\* Data::T(..) around the outcome of a read
Wrap(type, res) == Try(res, LAMBDA v : ReadOk(Data(type, v.val), v.rd))

\* The reads of a value that is not an array, common to read_bytes_as and to the
\* match of read_array
ReadPlain(r, data_type) ==
    CASE data_type = "Uint8" -> Wrap(data_type, read_u8(r))
      [] data_type = "Int8" -> Wrap(data_type, read_i8(r))
      [] data_type = "Uint16" -> Wrap(data_type, read_u16(r))
      [] data_type = "Int16" -> Wrap(data_type, read_i16(r))
      [] data_type = "Uint32" -> Wrap(data_type, read_u32(r))
      [] data_type = "Int32" -> Wrap(data_type, read_i32(r))
      [] data_type = "Float32" -> Wrap(data_type, read_f32(r))
      [] data_type = "Bool" -> Wrap(data_type, read_bool(r))
      [] data_type = "Uint64" -> Wrap(data_type, read_u64(r))
      [] data_type = "Int64" -> Wrap(data_type, read_i64(r))
      [] data_type = "Float64" -> Wrap(data_type, read_f64(r))
      [] data_type = "String" -> Wrap(data_type, read_string(r))

\* read_array: the element type code, the length, then that many elements
RECURSIVE read_array(_)
RECURSIVE ReadArrayItems(_, _, _, _)
ReadArrayItems(r, value_type, remaining, result) ==
    IF remaining = 0 THEN ReadOk(result, r)
    ELSE Try(IF value_type = "Array" THEN Wrap("Array", read_array(r))
             ELSE ReadPlain(r, value_type),
             LAMBDA value : ReadArrayItems(value.rd, value_type, remaining - 1,
                                           Append(result, value.val)))

read_array(r) ==
    Try(read_bytes(r, 4), LAMBDA b :
        Try(u32_to_data_type(UnsignedLE(b.val)), LAMBDA value_type :
            Try(read_u64(b.rd), LAMBDA array_len :
                ReadArrayItems(array_len.rd, value_type.val, array_len.val, << >>))))

\* get_k: the key of a metadata entry
get_k(r) == LengthPrefixed(read_u64(r))

\* get_value_type: the 4-byte type code of a metadata value
get_value_type(r) ==
    Try(read_bytes(r, 4), LAMBDA b :
        Try(u32_to_data_type(UnsignedLE(b.val)), LAMBDA value_type :
            ReadOk(value_type.val, b.rd)))

\* ReadingInfo::read_bytes_as
read_bytes_as(r, data_type) ==
    IF data_type = "Array" THEN Wrap("Array", read_array(r)) ELSE ReadPlain(r, data_type)

\* get_kv_pair: key, value type, value
get_kv_pair(r) ==
    Try(get_k(r), LAMBDA key :
        Try(get_value_type(key.rd), LAMBDA value_type :
            Try(read_bytes_as(value_type.rd, value_type.val), LAMBDA value :
                ReadOk(<<key.val, value.val>>, value.rd))))

\* The for loop of get_kv_metadata: kv.insert(key, val) for each pair read
RECURSIVE GetKvLoop(_, _, _)
GetKvLoop(r, remaining, kvmap) ==
    IF remaining = 0 THEN ReadOk(kvmap, r)
    ELSE Try(get_kv_pair(r), LAMBDA pair :
             GetKvLoop(pair.rd, remaining - 1, MapInsert(kvmap, pair.val[1], pair.val[2])))

get_kv_metadata(r, kv_count) == GetKvLoop(r, kv_count, << >>)

\* The for loop of get_tensor_metadata over the dimensions
RECURSIVE ReadDimensions(_, _, _)
ReadDimensions(r, remaining, dimensions) ==
    IF remaining = 0 THEN ReadOk(dimensions, r)
    ELSE Try(read_u64(r), LAMBDA dim :
             ReadDimensions(dim.rd, remaining - 1, Append(dimensions, dim.val)))

\* get_tensor_metadata: one descriptor of the directory
get_tensor_metadata(r) ==
    Try(read_string(r), LAMBDA name :
        Try(read_u32(name.rd), LAMBDA n_dimensions :
            Try(ReadDimensions(n_dimensions.rd, n_dimensions.val, << >>), LAMBDA dimensions :
                Try(read_u32(dimensions.rd), LAMBDA type_id :
                    Try(read_u64(type_id.rd), LAMBDA offset :
                        ReadOk([name |-> name.val, n_dimensions |-> n_dimensions.val,
                                dimensions |-> dimensions.val, type_id |-> type_id.val,
                                offset |-> offset.val], offset.rd))))))

\* The for loop of get_tensors_metadata: all_tensors.push(curr_tensor)
RECURSIVE GetTensorsLoop_partial(_, _, _)
GetTensorsLoop_partial(r, remaining, all_tensors) ==
    IF remaining = 0 THEN ReadOk(all_tensors, r)
    ELSE LET curr_tensor == get_tensor_metadata(r)
         IN  IF curr_tensor.st # "Ok" THEN ReadOk(all_tensors, r)
             ELSE GetTensorsLoop_partial(curr_tensor.rd, remaining - 1,
                                         Append(all_tensors, curr_tensor.val))

RECURSIVE GetTensorsLoop(_, _, _)
GetTensorsLoop(r, remaining, all_tensors) ==
    IF remaining = 0 THEN ReadOk(all_tensors, r)
    ELSE Try(get_tensor_metadata(r), LAMBDA curr_tensor :
             GetTensorsLoop(curr_tensor.rd, remaining - 1,
                            Append(all_tensors, curr_tensor.val)))

get_tensors_metadata(r, tensor_count) == GetTensorsLoop(r, tensor_count, << >>)

\* Result::unwrap
Unwrap(res) ==
    IF res.st = "Err" THEN [st |-> "panic", msg |-> "called unwrap on an Err", err |-> res.err]
    ELSE res

\* GGUFData::new of model_loader/file_loader/types.rs
LoadedData(ver, nt, nkv, kvmap, tm) ==
    [version |-> ver, nb_tensors |-> nt, nb_key_vals |-> nkv, kv |-> kvmap,
     tensors_metadata |-> tm]

\* File::open(path): the container is the file at "model.gguf"
OpenContainer(path) ==
    IF path = "model.gguf" THEN [ok |-> TRUE, data |-> file_bytes]
    ELSE [ok |-> FALSE, err |-> [err |-> "io", kind |-> "NotFound"]]

\* read_file from the header on: the value it returns and the loaded_data it has
\* built when it returns Ok(())
ReadFileFrom(reader) ==
    Try(Unwrap(read_bytes(reader, 4)), LAMBDA hb :
        Try(StringFromUtf8(hb.val, hb.rd), LAMBDA header :
            Try(read_u32(header.rd), LAMBDA ver :
                Try(read_u64(ver.rd), LAMBDA tensor_count :
                    Try(read_u64(tensor_count.rd), LAMBDA metadata_count :
                        Try(Unwrap(get_kv_metadata(metadata_count.rd, metadata_count.val)),
                            LAMBDA kvmap :
                            Try(get_tensors_metadata(kvmap.rd, tensor_count.val),
                                LAMBDA tm :
                                [st |-> "Ok", val |-> << >>,
                                 loaded_data |->
                                    LoadedData(ver.val, tensor_count.val,
                                               metadata_count.val, kvmap.val, tm.val)])))))))

\* What read_file(path) does
ReadFileRun(path) ==
    IF OpenContainer(path).ok
    THEN ReadFileFrom(ReaderNew(OpenContainer(path).data, 0))
    ELSE [st |-> "Err", err |-> OpenContainer(path).err]

ParseNoCall == [op |-> "none"]

read_file(path) ==
    /\ parse_call.op = "none"
    /\ parse_call' = [op |-> "read_file", path |-> path, res |-> ReadFileRun(path)]
    /\ UNCHANGED <<container, file_bytes>>
    /\ UNCHANGED <<kvVars, storeVars, opsVars>>

(***************************************************************************)
(* The container files the parser is run on (layout: file_loader.rs 11-30, *)
(* parser.rs 22-60, io.rs 114-152)                                         *)
(***************************************************************************)
\* n as `size` little-endian bytes
RECURSIVE LEBytes(_, _)
LEBytes(n, size) ==
    IF size = 0 THEN << >> ELSE <<n % 256>> \o LEBytes(n \div 256, size - 1)

\* What read_string reads back: the 8-byte length, then the bytes
EncString(s) == LEBytes(Len(s), 8) \o s

TypeCode(type) == (CHOOSE i \in 1..Len(DataTypeNames) : DataTypeNames[i] = type) - 1

RECURSIVE Flatten(_)
Flatten(seqs) == IF seqs = << >> THEN << >> ELSE Head(seqs) \o Flatten(Tail(seqs))

\* The bytes of a value without its type code
RECURSIVE EncPayload(_)
EncPayload(data) ==
    CASE data.type \in {"Uint8", "Int8"} -> LEBytes(data.val, 1)
      [] data.type \in {"Uint16", "Int16"} -> LEBytes(data.val, 2)
      [] data.type \in {"Uint32", "Int32"} -> LEBytes(data.val, 4)
      [] data.type = "Bool" -> <<IF data.val THEN 1 ELSE 0>>
      [] data.type \in {"Float32", "Uint64", "Int64", "Float64"} -> data.val
      [] data.type = "String" -> EncString(data.val)
      [] data.type = "Array" ->
            LEBytes(TypeCode(data.val[1].type), 4) \o LEBytes(Len(data.val), 8)
                \o Flatten([i \in 1..Len(data.val) |-> EncPayload(data.val[i])])

\* A metadata entry as get_kv_pair reads it
EncKvPair(pair) ==
    EncString(pair[1]) \o LEBytes(TypeCode(pair[2].type), 4) \o EncPayload(pair[2])

\* A descriptor as get_tensor_metadata reads it
EncTensorInfo(ti) ==
    EncString(ti.name) \o LEBytes(ti.n_dimensions, 4)
        \o Flatten([i \in 1..Len(ti.dimensions) |-> LEBytes(ti.dimensions[i], 8)])
        \o LEBytes(ti.type_id, 4) \o LEBytes(ti.offset, 8)

\* The 4-byte tag of the format, "GGUF"
MagicTag == <<71, 71, 85, 70>>

\* Tags that are not the format's: "XXXX", "GGUf", and 4 bytes that are not UTF-8
OtherTags == { <<88, 88, 88, 88>>, <<71, 71, 85, 102>>, <<255, 71, 85, 70>> }

\* A whole container file: tag, version, the two counts, the metadata entries, the
\* directory
EncContainer(tag, c) ==
    tag \o LEBytes(c.version, 4) \o LEBytes(Len(c.tensors), 8) \o LEBytes(Len(c.kvs), 8)
        \o Flatten([i \in 1..Len(c.kvs) |-> EncKvPair(c.kvs[i])])
        \o Flatten([i \in 1..Len(c.tensors) |-> EncTensorInfo(c.tensors[i])])

\* Metadata entries: keys "a" and "b"; "a" occurs with two different values
KvPool ==
    { <<<<97>>, Data("Uint8", 7)>>,
      <<<<97>>, Data("String", <<104, 105>>)>>,
      <<<<98>>, Data("Array", <<Data("Bool", TRUE), Data("Bool", FALSE)>>)>> }

\* Descriptors "t" (2 x 3, F32) and "u" (no dimensions, Q4_K)
ParsedInfoPool ==
    { TensorInfo(<<116>>, <<2, 3>>, 0, 0), TensorInfo(<<117>>, << >>, 12, 8) }

MaxKv == 2
MaxTensors == 2

Containers ==
    { [version |-> 3, kvs |-> kvs, tensors |-> tis] :
        kvs \in SeqsUpTo(KvPool, MaxKv), tis \in SeqsUpTo(ParsedInfoPool, MaxTensors) }

\* One byte of a container of a single entry, replaced (offsets from 1; the header
\* takes 24 bytes, the length of the first key or name 8 more):
\*   the key byte by 0xFF (not UTF-8); the low byte of the value type code by 13;
\*   the low byte of the element type code of the array by 99; the first boolean of
\*   the array by 2; the first byte of the string value by 0xFF; the byte of a
\*   tensor name by 0xFF
DamagedFiles ==
    { [kvs |-> <<entry>>, tensors |-> << >>, at |-> 33, byte |-> 255] : entry \in KvPool }
    \cup { [kvs |-> <<entry>>, tensors |-> << >>, at |-> 34, byte |-> 13] : entry \in KvPool }
    \cup { [kvs |-> <<entry>>, tensors |-> << >>, at |-> 38, byte |-> 99] :
             entry \in { e \in KvPool : e[2].type = "Array" } }
    \cup { [kvs |-> <<entry>>, tensors |-> << >>, at |-> 50, byte |-> 2] :
             entry \in { e \in KvPool : e[2].type = "Array" } }
    \cup { [kvs |-> <<entry>>, tensors |-> << >>, at |-> 46, byte |-> 255] :
             entry \in { e \in KvPool : e[2].type = "String" } }
    \cup { [kvs |-> << >>, tensors |-> <<ti>>, at |-> 33, byte |-> 255] :
             ti \in ParsedInfoPool }

\* The file is a container cut at any length, a whole container under another tag,
\* or a whole container with one byte replaced
ParseInit ==
    /\ container \in Containers
    /\ \/ \E n \in 0..Len(EncContainer(MagicTag, container)) :
              file_bytes = SubSeq(EncContainer(MagicTag, container), 1, n)
       \/ \E tag \in OtherTags : file_bytes = EncContainer(tag, container)
       \/ \E damage \in DamagedFiles :
              /\ container.kvs = damage.kvs
              /\ container.tensors = damage.tensors
              /\ file_bytes = [EncContainer(MagicTag, container)
                                  EXCEPT ![damage.at] = damage.byte]
    /\ parse_call = ParseNoCall

\* The parser state of the specifications that do not use it
ParseIdle ==
    /\ container = [version |-> 3, kvs |-> << >>, tensors |-> << >>]
    /\ file_bytes = << >>
    /\ parse_call = ParseNoCall

ParsePaths == {"model.gguf", "missing.gguf"}

ReadFile == \E path \in ParsePaths : read_file(path)

(***************************************************************************)
(* matmul (ops/matmul.rs)                                                  *)
(*                                                                         *)
(* An f32 is an integer here: the inputs are small integers, on which f32  *)
(* products and sums are exact.                                            *)
(***************************************************************************)
\* matmul line 38
WeightNot2D(w) == Len(w.dimensions) # 2

\* matmul line 45
InputMismatch(in, w) == Len(in) # w.dimensions[1]

\* matmul line 52
OutputMismatch_never(out, w) == FALSE
OutputMismatch(out, w) == Len(out) # w.dimensions[2]

\* weight_idx of the kernels (lines 97, 137, 184)
WeightIdx_transposed(in_idx, out_idx, in_features, out_features) ==
    out_idx * in_features + in_idx
WeightIdx(in_idx, out_idx, in_features, out_features) == in_idx * out_features + out_idx

\* BLOCK_SIZE of the quantized kernels
BLOCK_SIZE == 32

\* The weight the kernel reads at weight_idx: the f32, or the dequantized value
\* quantized * scale + min; None when an index is out of range (the read panics)
WeightAt_firstblock(w, weight_idx) ==
    IF w.tensor_type = "F32"
    THEN IF weight_idx < Len(w.f32_data[1]) THEN Some(w.f32_data[1][weight_idx + 1]) ELSE None
    ELSE IF /\ weight_idx < Len(w.quantized_data[1])
            /\ weight_idx \div BLOCK_SIZE < Len(w.scales[1])
            /\ weight_idx \div BLOCK_SIZE < Len(w.mins[1])
         THEN Some(w.quantized_data[1][weight_idx + 1] * w.scales[1][1] + w.mins[1][1])
         ELSE None
WeightAt(w, weight_idx) ==
    IF w.tensor_type = "F32"
    THEN IF weight_idx < Len(w.f32_data[1]) THEN Some(w.f32_data[1][weight_idx + 1]) ELSE None
    ELSE IF /\ weight_idx < Len(w.quantized_data[1])
            /\ weight_idx \div BLOCK_SIZE < Len(w.scales[1])
            /\ weight_idx \div BLOCK_SIZE < Len(w.mins[1])
         THEN Some(w.quantized_data[1][weight_idx + 1]
                       * w.scales[1][weight_idx \div BLOCK_SIZE + 1]
                   + w.mins[1][weight_idx \div BLOCK_SIZE + 1])
         ELSE None

\* The two nested for loops of a kernel, from (out_idx, in_idx) on
RECURSIVE KernelLoop(_, _, _, _, _)
KernelLoop(in, w, out, out_idx, in_idx) ==
    IF out_idx >= Len(out) THEN [ret |-> "Ok", output |-> out]
    ELSE IF in_idx >= Len(in) THEN KernelLoop(in, w, out, out_idx + 1, 0)
    ELSE IF WeightAt(w, WeightIdx(in_idx, out_idx, Len(in), Len(out))) = None
    THEN [ret |-> "panic", msg |-> "index out of bounds", output |-> out]
    ELSE KernelLoop(in, w,
                    [out EXCEPT ![out_idx + 1] =
                        @ + in[in_idx + 1]
                            * WeightAt(w, WeightIdx(in_idx, out_idx, Len(in), Len(out)))[1]],
                    out_idx, in_idx + 1)

\* The tensor has the arrays its kernel asks for (the ok_or(..)? of the kernels)
HasKernelData(w) ==
    IF w.tensor_type = "F32" THEN w.f32_data # None
    ELSE w.quantized_data # None /\ w.scales # None /\ w.mins # None

\* matmul_f32_f32, matmul_f32_q4k, matmul_f32_q6k: output.fill(0.0), then the loops;
\* none of the three reads its _cpu_features
MatmulKernel(in, w, out, cpu_features) ==
    IF ~HasKernelData(w)
    THEN [ret |-> "Err", err |-> "tensor missing data", output |-> out]
    ELSE KernelLoop(in, w, Fill(0, Len(out)), 0, 0)

\* What matmul returns and leaves in the output buffer
MatmulRun(in, w, out, cpu_features) ==
    IF WeightNot2D(w)
    THEN [ret |-> "Err", err |-> "Weight tensor must be 2D", output |-> out]
    ELSE IF InputMismatch(in, w)
    THEN [ret |-> "Err", err |-> "Input size doesn't match weight input dimension",
          output |-> out]
    ELSE IF OutputMismatch(out, w)
    THEN [ret |-> "Err", err |-> "Output buffer size doesn't match weight output dimension",
          output |-> out]
    ELSE MatmulKernel(in, w, out, cpu_features)

MatmulNoCall == [op |-> "none"]

MatmulCommit(run, cpu_features) ==
    /\ matmul_call.op = "none"
    /\ output' = run.output
    /\ matmul_call' = [op |-> "matmul", res |-> run, output_before |-> output,
                       cpu_features |-> cpu_features]
    /\ UNCHANGED <<input, weight>>
    /\ UNCHANGED <<kvVars, storeVars, parseVars, decodeVars, ropeVars, seekVars, elemVars, tokVars>>

\* struct CpuFeatures
CpuFeatures == [neon : BOOLEAN, dotprod : BOOLEAN]

matmul(cpu_features) ==
    MatmulCommit(MatmulRun(input, weight, output, cpu_features), cpu_features)

\* ---- the tensors and vectors matmul is run on ----
MaxFeatures == 2

\* create_f32_tensor of the tests
create_f32_tensor(data, dimensions) ==
    MkTensor("F32", "test", dimensions, Len(data), Some(data), None, None, None)

\* create_q4k_tensor / create_q6k_tensor of the tests
create_qk_tensor(kind, quantized, scales, mins, dimensions) ==
    MkTensor(kind, "test", dimensions, Len(quantized), None, Some(quantized),
             Some(scales), Some(mins))

\* Row-major weights: 1 + i + 2*o at [i, o] (the test's [1, 3, 2, 4] for 2 x 2), or
\* k*k - 2 at index k
WeightValues(seed, n, out_features) ==
    [k \in 1..n |-> IF seed = 1
                    THEN 1 + ((k - 1) \div out_features) + 2 * ((k - 1) % out_features)
                    ELSE (k - 1) * (k - 1) - 2]

\* Shapes: every [in, out] up to MaxFeatures, and shapes of rank 1 and 3
WeightShapes ==
    { <<a, b>> : a \in 0..MaxFeatures, b \in 0..MaxFeatures } \cup { <<2>>, <<1, 1, 1>> }

\* The F32 tensors of a shape: as many values as the shape has elements, or one
\* too few
F32Weights(dims) ==
    { create_f32_tensor(WeightValues(seed, n, IF Len(dims) = 2 /\ dims[2] > 0
                                                 THEN dims[2] ELSE 1), dims) :
        seed \in {1, 2},
        n \in { Product(dims), IF Product(dims) > 0 THEN Product(dims) - 1 ELSE 0 } }

\* The quantized tensors of a shape: 32 values more than the shape has elements
\* (one block of scale 2 and min -3), or one value too few
QuantizedWeights(dims) ==
    { create_qk_tensor(kind, [k \in 1..n |-> (5 * k + 5) % 16], <<2>>, <<0 - 3>>, dims) :
        kind \in {"Q4K", "Q6K"},
        n \in { Product(dims) + 32, IF Product(dims) > 0 THEN Product(dims) - 1 ELSE 0 } }

\* A quantized tensor of shape [BLOCK_SIZE / 2 + 1, 2]: its values lie in two
\* blocks, of scales 2 and 3 and mins -3 and 1
TwoBlockWeights ==
    { create_qk_tensor(kind, [k \in 1..(2 * BLOCK_SIZE) |-> (5 * k + 5) % 16],
                       <<2, 3>>, <<0 - 3, 1>>, <<BLOCK_SIZE \div 2 + 1, 2>>) :
        kind \in {"Q4K", "Q6K"} }

WeightTensors == UNION { F32Weights(dims) \cup QuantizedWeights(dims) : dims \in WeightShapes }

InputValues == {1, 2}

\* Stale values of the output buffer before the call
StaleOutput(len) == [i \in 1..len |-> 7 + i]

MatmulInit ==
    /\ \/ /\ weight \in WeightTensors
          /\ input \in SeqsUpTo(InputValues, MaxFeatures + 1)
          /\ \E len \in 0..(MaxFeatures + 1) : output = StaleOutput(len)
       \/ /\ weight \in TwoBlockWeights
          /\ \E v \in InputValues : input = [i \in 1..weight.dimensions[1] |-> v + (i % 2)]
          /\ output = StaleOutput(2)
    /\ matmul_call = MatmulNoCall

Matmul == \E cpu_features \in CpuFeatures : matmul(cpu_features)

\* matmul's state in the specifications that do not use it
MatmulIdle ==
    /\ input = << >>
    /\ weight = << >>
    /\ output = << >>
    /\ matmul_call = MatmulNoCall

(***************************************************************************)
(* load_tensor on its own: one descriptor decoded from one payload         *)
(***************************************************************************)
MaxElements == 257

PayloadLen == 432

\* The bytes of the payload: mixed bytes (0x3A at offset 16, the first packed byte
\* of a superblock at offset 0), all 0x00, or all 0xFF
PayloadBytes(fill) ==
    [i \in 1..PayloadLen |->
        CASE fill = "mixed" -> ((i - 1) * 37 + 234) % 256
          [] fill = "zeros" -> 0
          [] OTHER -> 255]

PayloadFills == {"mixed", "zeros", "ones"}

\* Shapes: no dimension (one element), one dimension of every size up to
\* MaxElements, and two dimensions
DecodeShapes ==
    { << >> } \cup { <<n>> : n \in 0..MaxElements }
              \cup { <<a, b>> : a \in {0, 3, 16}, b \in {0, 11, 16} }

\* The supported kind codes and an unsupported one
DecodeTypeIds == {0, 12, 14, 1}

\* Offsets: the start of the file, and one that leaves 16 bytes
DecodeOffsets == {0, PayloadLen - 16}

\* The largest F32 tensor decoded
MaxFloats == 40

DecodeNoCall == [op |-> "none"]

DecodeInit ==
    /\ \E dims \in DecodeShapes, type_id \in DecodeTypeIds, offset \in DecodeOffsets :
           /\ type_id = 0 => Product(dims) <= MaxFloats
           /\ decode_info = TensorInfo("blk.0.w", dims, type_id, offset)
    /\ \E fill \in PayloadFills : payload = PayloadBytes(fill)
    /\ decode_call = DecodeNoCall

\* load_tensor(&mut reader, &tensor_info) on a reader opened on the payload
LoadTensor ==
    /\ decode_call.op = "none"
    /\ decode_call' = [op |-> "load_tensor",
                       res |-> load_tensor(ReaderNew(payload, 0), decode_info)]
    /\ UNCHANGED <<decode_info, payload>>
    /\ UNCHANGED <<kvVars, storeVars, parseVars, matmulVars, ropeVars, seekVars, elemVars, tokVars>>

DecodeIdle ==
    /\ decode_info = << >>
    /\ payload = << >>
    /\ decode_call = DecodeNoCall

(***************************************************************************)
(* rope (ops/rope.rs)                                                      *)
(*                                                                         *)
(* An element of the vector is a term: the value the caller passed at an   *)
(* index, or what lines 13 and 14 computed from two terms with the angle   *)
(* of pair i.  The angle is pos * base^(-2i / head_dim): with pos = 0 it   *)
(* is 0, and the rotation gives back its two operands.                     *)
(***************************************************************************)
\* The value the caller passed at index j (from 0)
Given(j) == [op |-> "given", idx |-> j, args |-> << >>]

\* Line 13: temp_0 * angle.cos() - temp_1 * angle.sin(), with the angle of pair i
RotatedFirst(i, temp_0, temp_1, pos) ==
    IF pos = 0 THEN temp_0 ELSE [op |-> "cos-sin", idx |-> i, args |-> <<temp_0, temp_1>>]

\* Line 14: temp_0 * angle.sin() + temp_1 * angle.cos(), with the angle of pair i
RotatedSecond(i, temp_0, temp_1, pos) ==
    IF pos = 0 THEN temp_1 ELSE [op |-> "sin+cos", idx |-> i, args |-> <<temp_0, temp_1>>]

\* The for loop of lines 9-15, from i on
RECURSIVE RopeLoop(_, _, _, _)
RopeLoop(v, i, num_pairs, pos) ==
    IF i >= num_pairs THEN v
    ELSE RopeLoop([v EXCEPT ![i + 1] = RotatedFirst(i, v[i + 1], v[i + 2], pos),
                            ![i + 2] = RotatedSecond(i, v[i + 1], v[i + 2], pos)],
                  i + 1, num_pairs, pos)

\* rope(vec, base, pos, head_dim, rotary_dim): the outcome and the vector left
RopeRun(v, base, pos, hd, rotary_dim) ==
    IF rotary_dim > hd
    THEN [ret |-> "panic", vec |-> v,
          msg |-> "Trying to rotate more elements than available in the vector for RoPE."]
    ELSE [ret |-> "Ok", vec |-> RopeLoop(v, 0, Len(v) \div 2, pos)]

RopeNoCall == [op |-> "none"]

rope(base, pos, hd, rotary_dim) ==
    /\ rope_call.op = "none"
    /\ vec' = RopeRun(vec, base, pos, hd, rotary_dim).vec
    /\ rope_call' = [op |-> "rope", ret |-> RopeRun(vec, base, pos, hd, rotary_dim).ret,
                     base |-> base, pos |-> pos, head_dim |-> hd,
                     rotary_dim |-> rotary_dim, vec_before |-> vec]
    /\ UNCHANGED <<kvVars, storeVars, parseVars, matmulVars, decodeVars, seekVars, elemVars, tokVars>>

MaxVecLen == 4

MaxPos == 2

\* The bases the angle is computed from (the test's 1, and the usual 10000)
RopeBases == {1, 10000}

RopeInit ==
    /\ \E len \in 0..MaxVecLen : vec = [j \in 1..len |-> Given(j - 1)]
    /\ rope_call = RopeNoCall

\* A call with any head_dim up to the longest vector, and any rotary_dim up to
\* one more
Rope ==
    \E base \in RopeBases, pos \in 0..MaxPos, hd \in 1..MaxVecLen,
       rotary_dim \in 0..(MaxVecLen + 1) :
        rope(base, pos, hd, rotary_dim)

RopeIdle ==
    /\ vec = << >>
    /\ rope_call = RopeNoCall

(***************************************************************************)
(* Reader::seek and Reader::position on their own (io.rs 18-34), over a    *)
(* stream that may report any position, or fail                            *)
(***************************************************************************)
MaxSeekPos == 3

\* Reader::position
position(r) == r.pos

SeekNoCall == [op |-> "none"]

\* A reader made by Reader::new(buffer, initial_pos) over a stream of MaxSeekPos
\* bytes: initial_pos is the caller's, whatever the offset of the stream
SeekInit ==
    /\ \E initial_pos \in 0..MaxSeekPos, off \in 0..MaxSeekPos :
           seek_reader = [ReaderNew([i \in 1..MaxSeekPos |-> i], initial_pos) EXCEPT !.off = off]
    /\ seek_call = SeekNoCall

\* reader.seek(p), the stream reporting actual_pos (-1: its seek fails)
Seek ==
    \E p \in 0..MaxSeekPos, actual_pos \in (0 - 1)..MaxSeekPos :
        /\ seek_reader' = ReaderSeek(seek_reader, p, actual_pos).rd
        /\ seek_call' = [op |-> "seek", p |-> p, actual_pos |-> actual_pos,
                         ok |-> ReaderSeek(seek_reader, p, actual_pos).ok,
                         pos_before |-> position(seek_reader)]
        /\ UNCHANGED <<kvVars, storeVars, parseVars, matmulVars, decodeVars, ropeVars, elemVars, tokVars>>

\* reader.read_bytes(size) between two seeks; position() is kept within MaxSeekPos
SeekRead ==
    \E size \in 0..2 :
        /\ ReadBytes(seek_reader, size).ok => position(seek_reader) + size <= MaxSeekPos
        /\ seek_reader' = ReadBytes(seek_reader, size).rd
        /\ seek_call' = [op |-> "read_bytes", size |-> size, ok |-> ReadBytes(seek_reader, size).ok,
                         pos_before |-> position(seek_reader)]
        /\ UNCHANGED <<kvVars, storeVars, parseVars, matmulVars, decodeVars, ropeVars, elemVars, tokVars>>

\* Reader::new(buffer, 0) over a stream of MaxSeekPos bytes that is at its start
SyncInit ==
    /\ seek_reader = ReaderNew([i \in 1..MaxSeekPos |-> i], 0)
    /\ seek_call = SeekNoCall

SeekIdle ==
    /\ seek_reader = << >>
    /\ seek_call = SeekNoCall

(***************************************************************************)
(* A container file with its payload region, parsed and then decoded       *)
(* (main.rs 9-12: read_file(path), then the tensors of the same path)      *)
(***************************************************************************)
RegionLen == 32

\* The bytes that follow the directory in the file
PayloadRegion == [i \in 1..RegionLen |-> (i * 7 + 128) % 256]

\* The file is a whole container that has a directory, followed by the payload region
LoadInit ==
    /\ container \in { c \in Containers : c.tensors # << >> }
    /\ file_bytes = EncContainer(MagicTag, container) \o PayloadRegion
    /\ parse_call = ParseNoCall

\* The decode of one entry of the parsed directory as load_single_tensor and the
\* loop of load_tensors do it: a new Reader at the start of the file, load_tensor
LoadFromParsed ==
    /\ parse_call.op = "read_file"
    /\ parse_call.res.st = "Ok"
    /\ \E idx \in 1..Len(parse_call.res.loaded_data.tensors_metadata) :
          LET tensor_info == parse_call.res.loaded_data.tensors_metadata[idx]
          IN  parse_call' = [op |-> "load_tensor", path |-> parse_call.path,
                             info |-> tensor_info,
                             res |-> load_tensor(ReaderNew(OpenContainer(parse_call.path).data, 0),
                                                 tensor_info)]
    /\ UNCHANGED <<container, file_bytes>>
    /\ UNCHANGED <<kvVars, storeVars, opsVars>>

(***************************************************************************)
(* sigmoid and swiglu (ops/swiglu.rs), residual_add (ops/residual_add.rs)  *)
(*                                                                         *)
(* The inputs are integers.  A value computed with exp is a quotient of    *)
(* two polynomials in t = exp(1), exactly: exp(n) is t^n, and two          *)
(* quotients are equal as numbers exactly when they are equal as rational  *)
(* functions of t.  A polynomial is the sequence of its coefficients, the  *)
(* constant first.  Rounding to f32 is left out.                           *)
(***************************************************************************)
Coef(p, i) == IF i <= Len(p) THEN p[i] ELSE 0

PolyEq(p, q) == \A i \in 1..(Len(p) + Len(q)) : Coef(p, i) = Coef(q, i)

PolyAdd(p, q) ==
    [i \in 1..(IF Len(p) > Len(q) THEN Len(p) ELSE Len(q)) |-> Coef(p, i) + Coef(q, i)]

\* sum over j of p[j] * q[i + 1 - j]
RECURSIVE Convolve(_, _, _, _)
Convolve(p, q, i, j) ==
    IF j = 0 THEN 0
    ELSE (IF i + 1 - j >= 1 THEN p[j] * Coef(q, i + 1 - j) ELSE 0) + Convolve(p, q, i, j - 1)

PolyMul(p, q) ==
    IF p = << >> \/ q = << >> THEN << >>
    ELSE [i \in 1..(Len(p) + Len(q) - 1) |-> Convolve(p, q, i, Len(p))]

\* t^n, n >= 0
Monomial(n) == [i \in 1..(n + 1) |-> IF i = n + 1 THEN 1 ELSE 0]

Quot(num, den) == [num |-> num, den |-> den]

\* The f32 of an integer
Num(n) == Quot(<<n>>, <<1>>)

QAdd(a, b) == Quot(PolyAdd(PolyMul(a.num, b.den), PolyMul(b.num, a.den)), PolyMul(a.den, b.den))

QMul(a, b) == Quot(PolyMul(a.num, b.num), PolyMul(a.den, b.den))

QDiv(a, b) == Quot(PolyMul(a.num, b.den), PolyMul(a.den, b.num))

QEq(a, b) == PolyEq(PolyMul(a.num, b.den), PolyMul(b.num, a.den))

\* f32::exp of the integer n
Exp(n) == IF n >= 0 THEN Quot(Monomial(n), <<1>>) ELSE Quot(<<1>>, Monomial(0 - n))

\* Lines 9-14 of sigmoid, for one element
SigmoidAt(v) ==
    IF v > 0 THEN QDiv(Num(1), QAdd(Num(1), Exp(0 - v)))
    ELSE QDiv(Exp(v), QDiv(Num(1), Exp(v)))

\* The for loop of sigmoid, from i on: output[i] is written, or indexing it panics
RECURSIVE SigmoidLoop(_, _, _)
SigmoidLoop(in, out, i) ==
    IF i >= Len(in) THEN [ret |-> "Ok", output |-> out]
    ELSE IF i >= Len(out) THEN [ret |-> "panic", msg |-> "index out of bounds", output |-> out]
    ELSE SigmoidLoop(in, [out EXCEPT ![i + 1] = SigmoidAt(in[i + 1])], i + 1)

\* sigmoid(input, output); debug_assertions is the build's profile
SigmoidRun(in, out, debug_assertions) ==
    IF debug_assertions /\ Len(in) # Len(out)
    THEN [ret |-> "panic", msg |-> "Dimension mismatch for sigmoid", output |-> out]
    ELSE SigmoidLoop(in, out, 0)

\* The for loop of swiglu, from i on
RECURSIVE SwigluLoop(_, _, _, _, _)
SwigluLoop(xs, gs, sigmoid_x, out, i) ==
    IF i >= Len(xs) THEN [ret |-> "Ok", output |-> out]
    ELSE IF i >= Len(gs) \/ i >= Len(out)
    THEN [ret |-> "panic", msg |-> "index out of bounds", output |-> out]
    ELSE SwigluLoop(xs, gs, sigmoid_x,
                    [out EXCEPT ![i + 1] =
                        QMul(QMul(Num(xs[i + 1]), sigmoid_x[i + 1]), Num(gs[i + 1]))],
                    i + 1)

\* swiglu(x, gate, output)
SwigluRun(xs, gs, out, debug_assertions) ==
    IF debug_assertions /\ Len(xs) # Len(gs)
    THEN [ret |-> "panic", msg |-> "Dimension mismatch for SwiGLU", output |-> out]
    ELSE SwigluLoop(xs, gs,
                    SigmoidRun(xs, [i \in 1..Len(xs) |-> Num(0)], debug_assertions).output,
                    out, 0)

\* The for loop of residual_add, from i on
RECURSIVE ResidualLoop(_, _, _, _)
ResidualLoop(in, res, out, i) ==
    IF i >= Len(in) THEN [ret |-> "Ok", output |-> out]
    ELSE IF i >= Len(res) \/ i >= Len(out)
    THEN [ret |-> "panic", msg |-> "index out of bounds", output |-> out]
    ELSE ResidualLoop(in, res, [out EXCEPT ![i + 1] = in[i + 1] + res[i + 1]], i + 1)

\* residual_add(input, residual, output)
ResidualAddRun(in, res, out) == ResidualLoop(in, res, out, 0)

ElemNoCall == [op |-> "none"]

\* A call of one of the three kernels on the vectors of the state
ElemCommit(op, debug_assertions, run) ==
    /\ elem_call.op = "none"
    /\ elem_out' = run.output
    /\ elem_call' = [op |-> op, ret |-> run.ret, debug_assertions |-> debug_assertions,
                     output_before |-> elem_out]
    /\ UNCHANGED <<elem_x, elem_y>>
    /\ UNCHANGED <<kvVars, storeVars, parseVars, matmulVars, decodeVars, ropeVars, seekVars,
                   tokVars>>

sigmoid == \E dbg \in BOOLEAN : ElemCommit("sigmoid", dbg, SigmoidRun(elem_x, elem_out, dbg))

swiglu ==
    \E dbg \in BOOLEAN : ElemCommit("swiglu", dbg, SwigluRun(elem_x, elem_y, elem_out, dbg))

residual_add == ElemCommit("residual_add", FALSE, ResidualAddRun(elem_x, elem_y, elem_out))

MaxElemLen == 2

MaxElemValue == 2

\* Vectors of integers of both signs
ElemVectors == SeqsUpTo((0 - MaxElemValue)..MaxElemValue, MaxElemLen)

\* The values gate and residual are drawn from
ElemOtherValues == {0 - 3, 5}

\* sigmoid and swiglu: x, gate and an output buffer that holds 9.0
SwigluInit ==
    /\ elem_x \in ElemVectors
    /\ elem_y \in SeqsUpTo(ElemOtherValues, MaxElemLen)
    /\ \E len \in 0..MaxElemLen : elem_out = [i \in 1..len |-> Num(9)]
    /\ elem_call = ElemNoCall

\* residual_add: input, residual and an output buffer that holds 9.0
ResidualInit ==
    /\ elem_x \in ElemVectors
    /\ elem_y \in SeqsUpTo(ElemOtherValues, MaxElemLen + 1)
    /\ \E len \in 0..(MaxElemLen + 1) : elem_out = [i \in 1..len |-> 9]
    /\ elem_call = ElemNoCall

ElemIdle ==
    /\ elem_x = << >>
    /\ elem_y = << >>
    /\ elem_out = << >>
    /\ elem_call = ElemNoCall

(***************************************************************************)
(* Tokenizer (tokenizer/sentencepiece.rs)                                  *)
(*                                                                         *)
(* A text is a sequence of characters.  The SentencePieceProcessor is the  *)
(* library's: it cuts a text into pieces, "ab" where it can and single     *)
(* characters elsewhere, or it fails.                                      *)
(***************************************************************************)
PieceId(piece) ==
    CASE piece = <<"a">> -> 1 [] piece = <<"b">> -> 2 [] piece = <<"a", "b">> -> 3

\* inner.encode(text) when it succeeds: the pieces, each with its id
RECURSIVE InnerEncode(_)
InnerEncode(text) ==
    IF text = << >> THEN << >>
    ELSE IF Len(text) >= 2 /\ SubSeq(text, 1, 2) = <<"a", "b">>
    THEN <<[id |-> 3, piece |-> <<"a", "b">>]>> \o InnerEncode(SubSeq(text, 3, Len(text)))
    ELSE <<[id |-> PieceId(<<text[1]>>), piece |-> <<text[1]>>]>> \o InnerEncode(Tail(text))

\* The for loop of encode: id_to_piece.insert(piece.id, piece.piece.clone())
RECURSIVE CachePieces(_, _)
CachePieces(cache, pieces) ==
    IF pieces = << >> THEN cache
    ELSE CachePieces(MapInsert(cache, pieces[1].id, pieces[1].piece), Tail(pieces))

\* encode(text), the library's encode failing or not
EncodeRun_nocache(cache, text, inner_fails) ==
    IF inner_fails
    THEN [ok |-> FALSE, err |-> "Failed to encode text", cache |-> cache]
    ELSE [ok |-> TRUE, cache |-> cache,
          token_ids |-> [i \in 1..Len(InnerEncode(text)) |-> InnerEncode(text)[i].id]]
EncodeRun(cache, text, inner_fails) ==
    IF inner_fails
    THEN [ok |-> FALSE, err |-> "Failed to encode text", cache |-> cache]
    ELSE [ok |-> TRUE, cache |-> CachePieces(cache, InnerEncode(text)),
          token_ids |-> [i \in 1..Len(InnerEncode(text)) |-> InnerEncode(text)[i].id]]

\* tokens.iter().filter_map(|&id| self.id_to_piece.get(&id).cloned()).collect()
RECURSIVE PieceStrings(_, _)
PieceStrings(cache, tokens) ==
    IF tokens = << >> THEN << >>
    ELSE (IF tokens[1] \in DOMAIN cache THEN <<cache[tokens[1]]>> ELSE << >>)
             \o PieceStrings(cache, Tail(tokens))

\* decode(tokens)
DecodeRun(cache, tokens) ==
    LET piece_strings == PieceStrings(cache, tokens)
    IN  IF Len(piece_strings) = Len(tokens)
        THEN [ok |-> TRUE, text |-> Flatten(piece_strings)]
        ELSE [ok |-> FALSE,
              err |-> [err |-> "Cannot decode: missing piece strings",
                       missing |-> Len(tokens) - Len(piece_strings),
                       total |-> Len(tokens)]]

TokNoCall == [op |-> "none"]

encode(text, inner_fails) ==
    LET run == EncodeRun(id_to_piece, text, inner_fails)
    IN  /\ id_to_piece' = run.cache
        /\ encoded_ids' = encoded_ids \cup (IF run.ok THEN Range(run.token_ids) ELSE {})
        /\ tok_call' = [op |-> "encode", text |-> text, res |-> [f \in DOMAIN run \ {"cache"} |-> run[f]]]
        /\ UNCHANGED <<kvVars, storeVars, parseVars, matmulVars, decodeVars, ropeVars,
                       seekVars, elemVars>>

decode(tokens) ==
    /\ tok_call' = [op |-> "decode", tokens |-> tokens, res |-> DecodeRun(id_to_piece, tokens)]
    /\ UNCHANGED <<id_to_piece, encoded_ids>>
    /\ UNCHANGED <<kvVars, storeVars, parseVars, matmulVars, decodeVars, ropeVars,
                   seekVars, elemVars>>

MaxTextLen == 2

MaxTokens == 2

\* Ids 0 and 4 are ids of no piece
TokenIds == 0..4

\* Tokenizer::load_from_file: the piece cache is empty
TokInit ==
    /\ id_to_piece = << >>
    /\ encoded_ids = {}
    /\ tok_call = TokNoCall

Encode ==
    \E text \in SeqsUpTo({"a", "b"}, MaxTextLen), inner_fails \in BOOLEAN :
        encode(text, inner_fails)

Decode == \E tokens \in SeqsUpTo(TokenIds, MaxTokens) : decode(tokens)

TokIdle == TokInit

\* The state of the kernels, of the decoder and of the lone reader in the
\* specifications that use none of them
OpsIdle == MatmulIdle /\ DecodeIdle /\ RopeIdle /\ SeekIdle /\ ElemIdle /\ TokIdle

(***************************************************************************)
(* The tensor store as a state machine                                     *)
(***************************************************************************)
MaxIds == 2
MaxTokenId == 2
MaxEmbDim == 2

TokenIdLists == SeqsUpTo(0..MaxTokenId, MaxIds)

StoreInit ==
    /\ \E tm \in Directories :
           GGUFDataNew(3, Len(tm), Cardinality(DOMAIN MetadataMap), MetadataMap, tm)
    /\ store_call = StoreNoCall
    /\ loaded_names = {}

\* A store whose directory holds one embedding tensor: any of the three names and
\* kinds, 2-D with either dimension order (or 1-D)
EmbedDimensions ==
    { <<d0, d1>> : d0 \in 0..MaxEmbDim, d1 \in 0..MaxEmbDim } \cup { <<4>> }

EmbedInit ==
    /\ \E i \in 1..3, dims \in EmbedDimensions, type_id \in {0, 12, 14} :
           GGUFDataNew(3, 1, Cardinality(DOMAIN MetadataMap), MetadataMap,
                       << TensorInfo(EmbeddingTensorNames[i], dims, type_id, 8) >>)
    /\ store_call = StoreNoCall
    /\ loaded_names = {}

\* The store of the specifications that do not use it
StoreIdle ==
    /\ GGUFDataNew(0, 0, 0, << >>, << >>)
    /\ store_call = StoreNoCall
    /\ loaded_names = {}

\* The attention cache of the specifications that do not use it
KVIdle ==
    /\ KVCacheNew(0, 0, 0)
    /\ kv_call = KVNoCall
    /\ valid_appends = 0

LoadTensors == \E file_path \in Paths : load_tensors(file_path)

LoadSingleTensor ==
    \E file_path \in Paths, tensor_name \in TensorNames :
        load_single_tensor(file_path, tensor_name)

GetTensor == \E name \in TensorNames : get_tensor(name)

GetMetadata == \E key \in MetadataKeys : get_metadata(key)

LookupEmbeddings ==
    \E file_path \in Paths, token_ids \in TokenIdLists :
        lookup_embeddings(file_path, token_ids)

InitStore == StoreInit /\ KVIdle /\ ParseIdle /\ OpsIdle

NextStore == LoadTensors \/ LoadSingleTensor \/ GetTensor \/ GetMetadata

SpecStore == InitStore /\ [][NextStore]_vars

InitEmbed == EmbedInit /\ KVIdle /\ ParseIdle /\ OpsIdle

\* The embedding lookup is followed from a store that is fresh or preloaded by
\* load_tensors; a lookup after a lookup starts from a store that one of these is.
Preload == store_call.op # "lookup_embeddings" /\ LoadTensors

FirstLookup == store_call.op # "lookup_embeddings" /\ LookupEmbeddings

NextEmbed == FirstLookup \/ Preload

SpecEmbed == InitEmbed /\ [][NextEmbed]_vars

InitKV == KVInit /\ StoreIdle /\ ParseIdle /\ OpsIdle

NextKV == AppendKv \/ GetKSlice \/ GetVSlice

SpecKV == InitKV /\ [][NextKV]_vars

InitParse == ParseInit /\ KVIdle /\ StoreIdle /\ OpsIdle

NextParse == ReadFile

SpecParse == InitParse /\ [][NextParse]_vars

InitMatmul == MatmulInit /\ KVIdle /\ StoreIdle /\ ParseIdle /\ DecodeIdle /\ RopeIdle /\ SeekIdle
    /\ ElemIdle /\ TokIdle

NextMatmul == Matmul

SpecMatmul == InitMatmul /\ [][NextMatmul]_vars

InitDecode == DecodeInit /\ KVIdle /\ StoreIdle /\ ParseIdle /\ MatmulIdle /\ RopeIdle /\ SeekIdle
    /\ ElemIdle /\ TokIdle

NextDecode == LoadTensor

SpecDecode == InitDecode /\ [][NextDecode]_vars

InitRope == RopeInit /\ KVIdle /\ StoreIdle /\ ParseIdle /\ MatmulIdle /\ DecodeIdle /\ SeekIdle
    /\ ElemIdle /\ TokIdle

NextRope == Rope

SpecRope == InitRope /\ [][NextRope]_vars

InitSeek ==
    SeekInit /\ KVIdle /\ StoreIdle /\ ParseIdle /\ MatmulIdle /\ DecodeIdle /\ RopeIdle
    /\ ElemIdle /\ TokIdle

NextSeek == Seek \/ SeekRead

SpecSeek == InitSeek /\ [][NextSeek]_vars

InitLoad == LoadInit /\ KVIdle /\ StoreIdle /\ OpsIdle

NextLoad == ReadFile \/ LoadFromParsed

SpecLoad == InitLoad /\ [][NextLoad]_vars

InitSync ==
    /\ SyncInit /\ KVIdle /\ StoreIdle /\ ParseIdle
    /\ MatmulIdle /\ DecodeIdle /\ RopeIdle /\ ElemIdle /\ TokIdle

NextSync == Seek \/ SeekRead

SpecSync == InitSync /\ [][NextSync]_vars

InitTok ==
    /\ TokInit /\ KVIdle /\ StoreIdle /\ ParseIdle
    /\ MatmulIdle /\ DecodeIdle /\ RopeIdle /\ SeekIdle /\ ElemIdle

NextTok == Encode \/ Decode

SpecTok == InitTok /\ [][NextTok]_vars

InitSwiglu ==
    /\ SwigluInit /\ KVIdle /\ StoreIdle /\ ParseIdle
    /\ MatmulIdle /\ DecodeIdle /\ RopeIdle /\ SeekIdle /\ TokIdle

NextSwiglu == sigmoid \/ swiglu

SpecSwiglu == InitSwiglu /\ [][NextSwiglu]_vars

InitResidual ==
    /\ ResidualInit /\ KVIdle /\ StoreIdle /\ ParseIdle
    /\ MatmulIdle /\ DecodeIdle /\ RopeIdle /\ SeekIdle /\ TokIdle

NextResidual == residual_add

SpecResidual == InitResidual /\ [][NextResidual]_vars

(***************************************************************************)
(* Properties of the attention cache                                       *)
(***************************************************************************)
WellSized(c) ==
    Len(c.k) = num_heads * head_dim /\ Len(c.v) = num_heads * head_dim

\* C1: with capacity C = max_seq_len, the n-th append_kv call with well-sized k and v
\* returns Ok when n <= C and the capacity error KVCacheFull when n > C, and
\* current_pos equals C once C such calls have been made.
C1_AppendSucceedsExactlyCapacityTimes ==
    /\ (kv_call.op = "append_kv" /\ WellSized(kv_call)) =>
            kv_call.res = IF kv_call.nth_valid <= max_seq_len
                          THEN [ret |-> "Ok"]
                          ELSE [ret |-> "KVCacheFull", max_len |-> max_seq_len]
    /\ valid_appends >= max_seq_len => current_pos = max_seq_len
    /\ valid_appends < max_seq_len => current_pos = valid_appends

\* The (C+1)-th well-sized append on a cache of capacity C >= 2 has been rejected.
C1_Witness ==
    /\ kv_call.op = "append_kv"
    /\ WellSized(kv_call)
    /\ max_seq_len >= 2
    /\ num_heads * head_dim > 0
    /\ kv_call.nth_valid = max_seq_len + 1
    /\ kv_call.res.ret = "KVCacheFull"
    /\ current_pos = max_seq_len

\* C9: for head < num_heads, get_k_slice returns a slice of width head_dim exactly
\* when position <= current_pos and get_v_slice exactly when position < current_pos;
\* any other position or head panics.
C9_SliceReadsWithinBounds ==
    /\ kv_call.op = "get_k_slice" =>
            IF kv_call.position <= current_pos /\ kv_call.head < num_heads
            THEN kv_call.res.ret = "slice" /\ Len(kv_call.res.data) = head_dim
            ELSE kv_call.res.ret = "panic"
    /\ kv_call.op = "get_v_slice" =>
            IF kv_call.position < current_pos /\ kv_call.head < num_heads
            THEN kv_call.res.ret = "slice" /\ Len(kv_call.res.data) = head_dim
            ELSE kv_call.res.ret = "panic"

\* C10: append_kv on a cache that is not full with k or v of the wrong length
\* returns KVDimMismatch and leaves current_pos and both buffers unchanged.
C10_MismatchRejectedWithoutEffect ==
    (/\ kv_call.op = "append_kv"
     /\ kv_call.pos_before < max_seq_len
     /\ ~WellSized(kv_call)) =>
        /\ kv_call.res = [ret |-> "KVDimMismatch", k_size |-> num_heads * head_dim]
        /\ current_pos = kv_call.pos_before
        /\ k_cache = kv_call.k_before
        /\ v_cache = kv_call.v_before

\* A partly filled cache has rejected an append whose k is well-sized and whose v is not.
C10_Witness ==
    /\ kv_call.op = "append_kv"
    /\ kv_call.pos_before >= 1
    /\ kv_call.pos_before < max_seq_len
    /\ num_heads * head_dim > 0
    /\ Len(kv_call.k) = num_heads * head_dim
    /\ Len(kv_call.v) # num_heads * head_dim
    /\ kv_call.res.ret = "KVDimMismatch"

\* One step of the cursor: it does not move, or a successful append_kv moved it by
\* one and wrote k and v at the row the cursor held, leaving the other rows alone
CursorStep ==
    LET stride == num_heads * head_dim
        row == { i \in 1..Len(k_cache) : i > current_pos * stride
                                         /\ i <= (current_pos + 1) * stride }
    IN  /\ current_pos' >= current_pos
        /\ (kv_call'.op = "append_kv" /\ kv_call'.res.ret = "Ok" /\ kv_call' # kv_call)
               => current_pos' = current_pos + 1
        /\ current_pos' # current_pos =>
               /\ kv_call'.op = "append_kv" /\ kv_call'.res.ret = "Ok"
               /\ current_pos' = current_pos + 1
               /\ Len(k_cache') = Len(k_cache) /\ Len(v_cache') = Len(v_cache)
               /\ Cardinality(row) = stride
               /\ \A i \in 1..Len(k_cache) :
                      /\ k_cache'[i] = IF i \in row THEN kv_call'.k[i - current_pos * stride]
                                       ELSE k_cache[i]
                      /\ v_cache'[i] = IF i \in row THEN kv_call'.v[i - current_pos * stride]
                                       ELSE v_cache[i]
        /\ current_pos' = current_pos => (k_cache' = k_cache /\ v_cache' = v_cache)

\* C11: in every reachable state 0 <= current_pos <= max_seq_len; current_pos never
\* decreases, changes only in a successful append_kv, then by exactly one, and the
\* write landed at the row current_pos held before the append.
C11_CursorMonotoneAndBounded ==
    /\ [](0 <= current_pos /\ current_pos <= max_seq_len)
    /\ [][CursorStep]_vars

\* A second successful append_kv of non-empty rows has moved the cursor from 1 to 2.
C11_Witness ==
    /\ kv_call.op = "append_kv"
    /\ kv_call.res.ret = "Ok"
    /\ kv_call.pos_before = 1
    /\ current_pos = 2
    /\ num_heads * head_dim > 0

\* A slice a read has returned is the part of head `head` of a row below the
\* cursor, that is, of a row an append has written
ReadReturnsWrittenRow ==
    (kv_call.op \in {"get_k_slice", "get_v_slice"} /\ kv_call.res.ret = "slice") =>
        /\ kv_call.position < current_pos
        /\ kv_call.head < num_heads
        /\ kv_call.res.data =
               [i \in 1..head_dim |->
                   (IF kv_call.op = "get_k_slice" THEN k_cache ELSE v_cache)
                       [kv_call.position * num_heads * head_dim + kv_call.head * head_dim + i]]

\* A step leaves the rows below the cursor as they are, and a successful append
\* has put its k and its v in the row at the cursor
WrittenRowsKept ==
    LET stride == num_heads * head_dim
    IN  /\ \A i \in 1..(current_pos * stride) :
               k_cache'[i] = k_cache[i] /\ v_cache'[i] = v_cache[i]
        /\ (kv_call'.op = "append_kv" /\ kv_call'.res.ret = "Ok" /\ kv_call' # kv_call) =>
               \A i \in 1..stride :
                   /\ k_cache'[current_pos * stride + i] = kv_call'.k[i]
                   /\ v_cache'[current_pos * stride + i] = kv_call'.v[i]

\* C28: after n successful appends, get_k_slice(p, h) and get_v_slice(p, h) for
\* p < n return the elements [h * head_dim, (h + 1) * head_dim) of the k and the v
\* of the (p + 1)-th successful append; no later call changes the data of p; and
\* every slice a read returns holds data that an append has written.
C28_ReadsReturnAppendedRows == []ReadReturnsWrittenRow /\ [][WrittenRowsKept]_vars

(***************************************************************************)
(* Properties of matmul                                                    *)
(***************************************************************************)
MatmulCalled == matmul_call.op = "matmul"

\* One of the three shape checks of matmul fails on the arguments
ShapeCheckFails ==
    \/ WeightNot2D(weight)
    \/ Len(input) # weight.dimensions[1]
    \/ Len(output) # weight.dimensions[2]

RECURSIVE DotColumn(_, _, _, _, _)
DotColumn(in, data, out_features, o, n) ==
    IF n = 0 THEN 0
    ELSE DotColumn(in, data, out_features, o, n - 1)
         + in[n] * data[(n - 1) * out_features + o + 1]

\* An F32 weight of shape [in, out] with in * out values, and vectors of its sizes
F32WellShaped ==
    /\ weight.tensor_type = "F32"
    /\ ~ShapeCheckFails
    /\ weight.f32_data # None
    /\ Len(weight.f32_data[1]) = weight.dimensions[1] * weight.dimensions[2]

\* C13: with an F32 weight of shape [in, out] stored row-major, matmul returns Ok
\* and output[o] is the sum over i of input[i] * weight[i * out + o], whatever the
\* buffer held; the weight [1, 3, 2, 4] of shape [2, 2] and the input [1, 2] give
\* [5, 11].
C13_F32Product ==
    (MatmulCalled /\ F32WellShaped) =>
        /\ matmul_call.res.ret = "Ok"
        /\ output = [o \in 1..weight.dimensions[2] |->
                         DotColumn(input, weight.f32_data[1], weight.dimensions[2], o - 1,
                                   weight.dimensions[1])]
        /\ (weight.f32_data[1] = <<1, 3, 2, 4>> /\ input = <<1, 2>>) => output = <<5, 11>>

\* The product of the test, over a buffer that held other values
C13_Witness ==
    /\ MatmulCalled
    /\ F32WellShaped
    /\ weight.f32_data[1] = <<1, 3, 2, 4>>
    /\ weight.dimensions = <<2, 2>>
    /\ input = <<1, 2>>
    /\ matmul_call.output_before = <<8, 9>>
    /\ output = <<5, 11>>

\* The full-precision matrix of a quantized weight: element w is
\* quantized[w] * scales[w div 32] + mins[w div 32]
Dequantized(w) ==
    [k \in 1..Len(w.quantized_data[1]) |->
        w.quantized_data[1][k] * w.scales[1][(k - 1) \div 32 + 1]
            + w.mins[1][(k - 1) \div 32 + 1]]

\* A Q4K or Q6K weight of shape [in, out] that holds in * out values and the
\* scale and the min of each of their blocks, and vectors of its sizes
QuantizedWellShaped ==
    /\ weight.tensor_type \in {"Q4K", "Q6K"}
    /\ ~ShapeCheckFails
    /\ HasKernelData(weight)
    /\ Len(weight.quantized_data[1]) >= weight.dimensions[1] * weight.dimensions[2]
    /\ Len(weight.scales[1]) * 32 >= Len(weight.quantized_data[1])
    /\ Len(weight.mins[1]) * 32 >= Len(weight.quantized_data[1])

C20_SeekVerifiesPosition ==
    seek_call.op = "seek" =>
        /\ seek_call.ok <=> seek_call.actual_pos = seek_call.p
        /\ seek_call.ok => position(seek_reader) = seek_call.p
        /\ ~seek_call.ok => position(seek_reader) = seek_call.pos_before

\* The stream reported another position than the one asked for: the seek failed
\* and position() kept a value that is neither
C20_Witness ==
    /\ seek_call.op = "seek"
    /\ seek_call.actual_pos >= 0
    /\ seek_call.actual_pos # seek_call.p
    /\ ~seek_call.ok
    /\ position(seek_reader) = seek_call.pos_before
    /\ position(seek_reader) # seek_call.p
    /\ position(seek_reader) # seek_call.actual_pos

\* C29: for a Reader made with initial_pos 0 over a stream at offset 0, position()
\* is the offset of the stream in every reachable state, after the reads and
\* the seeks that succeed and after those that fail.
C29_PositionIsStreamOffset == position(seek_reader) = seek_reader.off

(***************************************************************************)
(* Properties of rope                                                      *)
(***************************************************************************)
\* What element j (from 0) of the vector is after rotating the disjoint pairs
\* (v[2k], v[2k+1]) that lie in the first rotary_dim elements, each once with the
\* angle of k
DisjointPairsRotated(before, j, pos, rotary_dim) ==
    IF 2 * (j \div 2) + 1 < rotary_dim /\ 2 * (j \div 2) + 1 < Len(before)
    THEN IF j % 2 = 0
         THEN RotatedFirst(j \div 2, before[j + 1], before[j + 2], pos)
         ELSE RotatedSecond(j \div 2, before[j], before[j + 1], pos)
    ELSE before[j + 1]

\* C18: rope with rotary_dim <= head_dim rotates the disjoint pairs (v[2k], v[2k+1])
\* with 2k+1 < rotary_dim, each once by the angle of k, and leaves every element
\* from index rotary_dim on as it was; with rotary_dim > head_dim the call is
\* refused and the vector is as it was.
C18_RotatesDisjointPairs ==
    rope_call.op = "rope" =>
        IF rope_call.rotary_dim > rope_call.head_dim
        THEN rope_call.ret = "panic" /\ vec = rope_call.vec_before
        ELSE /\ rope_call.ret = "Ok"
             /\ Len(vec) = Len(rope_call.vec_before)
             /\ \A j \in 0..(Len(vec) - 1) :
                    vec[j + 1] = DisjointPairsRotated(rope_call.vec_before, j,
                                                      rope_call.pos, rope_call.rotary_dim)

(***************************************************************************)
(* Properties of the tensor decoders                                       *)
(***************************************************************************)
\* load_tensor returned a tensor of the given kind
Decoded(kind) ==
    /\ decode_call.op = "load_tensor"
    /\ decode_call.res.ok
    /\ decode_call.res.tensor.tensor_type = kind

\* The byte of the file at `index` (from 0) of the packed values of superblock
\* `block` of the decoded tensor, whose superblocks take block_size bytes
PackedByte(block, block_size, index) ==
    payload[decode_info.offset + block * block_size + 16 + index + 1]

C15_AdjacentNibbles ==
    Decoded("Q4K") =>
        LET q == decode_call.res.tensor.quantized_data[1]
        IN  \A e \in 1..Len(q) :
                LET block == (e - 1) \div 256
                    j == ((e - 1) % 256) \div 2
                    byte == PackedByte(block, 144, j)
                IN  /\ q[e] \in 0..15
                    /\ q[e] = IF (e - 1) % 2 = 0 THEN byte % 16 ELSE byte \div 16

\* C16: in a decoded Q6K tensor, triplet (b0, b1, b2) of a superblock's packed
\* bytes gives four consecutive elements b0 & 0x3F, (b0 >> 6) | ((b1 & 0x0F) << 2),
\* (b1 >> 4) | ((b2 & 0x03) << 4), b2 >> 2; every element is in 0..63; the 64
\* triplets of a superblock give its 256 elements; bytes 0xFF give 63 and bytes
\* 0x00 give 0.
C16_SixBitTriplets ==
    Decoded("Q6K") =>
        LET q == decode_call.res.tensor.quantized_data[1]
        IN  \A e \in 1..Len(q) :
                LET block == (e - 1) \div 256
                    triplet == ((e - 1) % 256) \div 4
                    b0 == PackedByte(block, 208, 3 * triplet)
                    b1 == PackedByte(block, 208, 3 * triplet + 1)
                    b2 == PackedByte(block, 208, 3 * triplet + 2)
                IN  /\ q[e] \in 0..63
                    /\ triplet \in 0..63
                    /\ q[e] = CASE (e - 1) % 4 = 0 -> b0 % 64
                                 [] (e - 1) % 4 = 1 -> (b0 \div 64) + (b1 % 16) * 4
                                 [] (e - 1) % 4 = 2 -> (b1 \div 16) + (b2 % 4) * 16
                                 [] OTHER -> b2 \div 4
                    /\ (b0 = 255 /\ b1 = 255 /\ b2 = 255) => q[e] = 63
                    /\ (b0 = 0 /\ b1 = 0 /\ b2 = 0) => q[e] = 0

\* Two superblocks of mixed bytes decoded: element 256 (from 0) is the first value
\* of the second superblock's first triplet
C16_Witness ==
    /\ Decoded("Q6K")
    /\ Len(decode_call.res.tensor.quantized_data[1]) = 257
    /\ payload[1] # payload[2]
    /\ decode_call.res.tensor.quantized_data[1][257] = PackedByte(1, 208, 0) % 64
    /\ decode_call.res.tensor.quantized_data[1][2] # decode_call.res.tensor.quantized_data[1][1]

(***************************************************************************)
(* Properties of the tensor store                                          *)
(***************************************************************************)
\* The decode of directory entry k from the bytes `data`, read on its own with a
\* fresh reader
DecodeEntry(data, k) == load_tensor(ReaderNew(data, 0), tensors_metadata[k])

IsLoadSingle == store_call.op = "load_single_tensor"

IsLoadTensors == store_call.op = "load_tensors"

\* C2: a load_single_tensor(name) call that follows a load_single_tensor(name) call
\* which returned Ok returns Ok, decodes nothing, does not open the file and leaves
\* the cache as it was, and the tensor the first call made observable is still the
\* one get_tensor(name) returns.
C2_SecondLoadSingleIsNoOp ==
    /\ (IsLoadSingle /\ store_call.res.ret = "Ok") =>
            store_call.tensor_name \in DOMAIN tensors
    /\ (IsLoadSingle /\ store_call.prev_single_ok = store_call.tensor_name) =>
            /\ store_call.res = [ret |-> "Ok"]
            /\ store_call.decoded = << >>
            /\ ~store_call.opened
            /\ tensors = store_call.tensors_before
            /\ MapGet(tensors, store_call.tensor_name) # None
            /\ MapGet(tensors, store_call.tensor_name)
                   = MapGet(store_call.tensors_before, store_call.tensor_name)

\* The second of two load_single_tensor calls for the same name has returned, the
\* second one naming a file that does not exist.
C2_Witness ==
    /\ IsLoadSingle
    /\ store_call.prev_single_ok = store_call.tensor_name
    /\ store_call.file_path = "missing.gguf"
    /\ store_call.res.ret = "Ok"
    /\ store_call.tensor_name \in DOMAIN tensors

\* C3 (as claimed): no load call decodes a name that is already in the cache or
\* decodes a name twice, and a cached tensor is never replaced.
C3_AtMostOnceDecodePerName ==
    (IsLoadSingle \/ IsLoadTensors) =>
        /\ \A n \in DOMAIN store_call.tensors_before :
               /\ n \notin Range(store_call.decoded)
               /\ tensors[n] = store_call.tensors_before[n]
        /\ \A i, j \in 1..Len(store_call.decoded) :
               store_call.decoded[i] = store_call.decoded[j] => i = j

\* C3 (amended): load_single_tensor decodes at most one name, never one that is
\* already in the cache, and replaces no cached tensor; load_tensors decodes the
\* directory entries in order up to the first failure on every call, whether or not
\* their names are cached, and ends with exactly those names added to the cache.
C3_OnlyLoadSingleSkipsCachedNames ==
    /\ IsLoadSingle =>
            /\ Len(store_call.decoded) <= 1
            /\ \A n \in DOMAIN store_call.tensors_before :
                   /\ n \notin Range(store_call.decoded)
                   /\ tensors[n] = store_call.tensors_before[n]
    /\ (IsLoadTensors /\ FileOpen(store_call.file_path).ok) =>
            LET data == FileOpen(store_call.file_path).data
                n == Len(tensors_metadata)
                ok_prefix == { k \in 0..n : \A j \in 1..k : DecodeEntry(data, j).ok }
                reach == CHOOSE k \in ok_prefix : \A j \in ok_prefix : j <= k
            IN  /\ store_call.decoded = [j \in 1..reach |-> tensors_metadata[j].name]
                /\ DOMAIN tensors =
                      DOMAIN store_call.tensors_before \cup Range(store_call.decoded)

\* load_tensors has decoded again a name that was already in the cache.
C3_Witness ==
    /\ IsLoadTensors
    /\ \E n \in DOMAIN store_call.tensors_before : n \in Range(store_call.decoded)

\* C4: load_tensors decodes the entries in directory order up to the first entry k
\* that fails; it then returns Err naming k, the cache holds what it held before
\* plus the tensors of entries 1..k-1 and nothing of entry k or later; when no
\* entry fails it returns Ok and every directory name is in the cache.
C4_LoadTensorsStopsAtFirstFailure ==
    (IsLoadTensors /\ FileOpen(store_call.file_path).ok) =>
        LET data == FileOpen(store_call.file_path).data
            n == Len(tensors_metadata)
            failing == { k \in 1..n : ~DecodeEntry(data, k).ok }
            stop == IF failing = {} THEN n + 1
                    ELSE CHOOSE k \in failing : \A j \in failing : k <= j
            added == { tensors_metadata[j].name : j \in 1..(stop - 1) }
            last(name) == CHOOSE j \in 1..(stop - 1) :
                            /\ tensors_metadata[j].name = name
                            /\ \A i \in (j + 1)..(stop - 1) : tensors_metadata[i].name # name
        IN  /\ failing = {} => store_call.res = [ret |-> "Ok"]
            /\ failing # {} =>
                   /\ store_call.res.ret = "Err"
                   /\ store_call.res.err.idx = stop
                   /\ store_call.res.err.name = tensors_metadata[stop].name
            /\ store_call.decoded = [j \in 1..(stop - 1) |-> tensors_metadata[j].name]
            /\ DOMAIN tensors = DOMAIN store_call.tensors_before \cup added
            /\ \A name \in DOMAIN tensors :
                   tensors[name] = IF name \in added
                                   THEN DecodeEntry(data, last(name)).tensor
                                   ELSE store_call.tensors_before[name]
            /\ failing = {} =>
                   \A k \in 1..n : tensors_metadata[k].name \in DOMAIN tensors

\* load_tensors on an empty cache has failed at entry 2 of a directory whose entry 1
\* decodes: entry 1 is cached, entry 2 is not.
C4_Witness ==
    /\ IsLoadTensors
    /\ FileOpen(store_call.file_path).ok
    /\ Len(tensors_metadata) = 2
    /\ store_call.tensors_before = << >>
    /\ store_call.res.ret = "Err"
    /\ store_call.res.err.idx = 2
    /\ DOMAIN tensors = { tensors_metadata[1].name }
    /\ tensors_metadata[2].name # tensors_metadata[1].name

\* C5: get_tensor and get_metadata decode nothing and leave the cache, the directory
\* and the metadata map unchanged; get_tensor returns the cached tensor exactly when
\* an earlier load inserted the name and not-present otherwise.
C5_GettersNeverDecode ==
    /\ store_call.op \in {"get_tensor", "get_metadata"} =>
            /\ store_call.decoded = << >>
            /\ tensors = store_call.tensors_before
            /\ kv = store_call.kv_before
            /\ tensors_metadata = store_call.metadata_before
    /\ store_call.op = "get_tensor" =>
            store_call.res = IF store_call.name \in loaded_names
                             THEN Some(tensors[store_call.name])
                             ELSE None
    /\ store_call.op = "get_metadata" =>
            store_call.res = IF store_call.key \in DOMAIN kv
                             THEN Some(kv[store_call.key])
                             ELSE None

\* get_tensor has answered not-present for a directory name that no load has
\* inserted, while another name is cached.
C5_Witness ==
    /\ store_call.op = "get_tensor"
    /\ store_call.res = None
    /\ \E k \in 1..Len(tensors_metadata) :
           /\ tensors_metadata[k].name = store_call.name
           /\ tensors_metadata[k].type_id \in {0, 12, 14}
    /\ tensors # << >>

\* The kind codes load_tensor decodes
SupportedKinds == {0, 12, 14}

\* The error names the descriptor: its name, its offset and its kind code
ErrorIdentifies(err, descriptor) ==
    /\ {"name", "offset", "type_id"} \subseteq DOMAIN err
    /\ err.name = descriptor.name
    /\ err.offset = descriptor.offset
    /\ err.type_id = descriptor.type_id

\* The call left the cache entry of `name` as it was
EntryKept(name) == MapGet(tensors, name) = MapGet(store_call.tensors_before, name)

\* C17: a descriptor whose kind code is not 0, 12 or 14 is rejected: load_tensors
\* and load_single_tensor return an error that carries the descriptor's name, offset
\* and kind code, and cache no tensor for it.
C17_UnsupportedKindIdentified ==
    /\ (/\ IsLoadSingle
        /\ FindTensorInfo(store_call.tensor_name) # 0
        /\ tensors_metadata[FindTensorInfo(store_call.tensor_name)].type_id
               \notin SupportedKinds
        /\ store_call.tensor_name \notin DOMAIN store_call.tensors_before
        /\ FileOpen(store_call.file_path).ok)
       => /\ store_call.res.ret = "Err"
          /\ ErrorIdentifies(store_call.res.err,
                             tensors_metadata[FindTensorInfo(store_call.tensor_name)])
          /\ tensors = store_call.tensors_before
    /\ (/\ IsLoadTensors
        /\ FileOpen(store_call.file_path).ok
        /\ \E k \in 1..Len(tensors_metadata) :
               tensors_metadata[k].type_id \notin SupportedKinds)
       => /\ store_call.res.ret = "Err"
          /\ tensors_metadata[store_call.res.err.idx].type_id \notin SupportedKinds =>
                 /\ ErrorIdentifies(store_call.res.err,
                                    tensors_metadata[store_call.res.err.idx])
                 /\ EntryKept(tensors_metadata[store_call.res.err.idx].name)

\* No descriptor of the directory has this name
NameAbsent(name) == \A i \in 1..Len(tensors_metadata) : tensors_metadata[i].name # name

\* What a load_single_tensor call for an absent name has returned and left
NotFoundOutcome ==
    (IsLoadSingle /\ NameAbsent(store_call.tensor_name)) =>
        /\ store_call.res =
               [ret |-> "Err",
                err |-> [err |-> "not found in model metadata",
                         name |-> store_call.tensor_name]]
        /\ ~store_call.opened
        /\ store_call.decoded = << >>
        /\ tensors = store_call.tensors_before

\* A step that is a load_single_tensor call for an absent name changes nothing of
\* the store
NotFoundStep ==
    (/\ store_call' # store_call
     /\ store_call'.op = "load_single_tensor"
     /\ NameAbsent(store_call'.tensor_name))
    => UNCHANGED <<tensors, tensors_metadata, kv, version, nb_tensors, nb_key_vals,
                   loaded_names>>

\* C21: load_single_tensor(name) for a name that no descriptor of the directory has
\* returns the lookup error naming the tensor, opens no file, decodes nothing and
\* leaves the cache, the directory and the metadata as they were, whatever was
\* loaded before.
C21_AbsentNameFailsWithoutIO == []NotFoundOutcome /\ [][NotFoundStep]_vars

\* The call for an absent name has failed on a store that holds decoded tensors,
\* naming a file that exists
C21_Witness ==
    /\ IsLoadSingle
    /\ NameAbsent(store_call.tensor_name)
    /\ store_call.file_path = "model.gguf"
    /\ store_call.res.ret = "Err"
    /\ tensors # << >>
    /\ tensors = store_call.tensors_before

\* The kind a decoded tensor has for a kind code
KindOfCode(type_id) ==
    CASE type_id = 0 -> "F32" [] type_id = 12 -> "Q4K" [] type_id = 14 -> "Q6K"
      [] OTHER -> "none"

\* The cache is empty after construction, and every entry is under the name, and has
\* the kind and the dimensions, of a descriptor of the directory
CacheWithinDirectory ==
    /\ store_call.op = "new" => tensors = << >>
    /\ \A name \in DOMAIN tensors :
           /\ tensors[name].name = name
           /\ \E k \in 1..Len(tensors_metadata) :
                  /\ tensors_metadata[k].name = name
                  /\ tensors[name].tensor_type = KindOfCode(tensors_metadata[k].type_id)
                  /\ tensors[name].dimensions = tensors_metadata[k].dimensions

\* A step removes no entry of the cache and changes neither the directory nor the
\* metadata
CacheGrows ==
    /\ DOMAIN tensors \subseteq DOMAIN tensors'
    /\ UNCHANGED <<tensors_metadata, kv, version, nb_tensors, nb_key_vals>>

\* C22: the cache is empty after construction, no operation removes an entry, an
\* entry is kept per name, every cached name is the name of a directory descriptor
\* whose kind and dimensions the cached tensor has, and the directory and the
\* metadata map are never changed.
C22_CacheGrowsWithinDirectory == []CacheWithinDirectory /\ [][CacheGrows]_vars

\* A call has added a second name to a cache that held one
C22_Witness ==
    /\ (IsLoadSingle \/ IsLoadTensors)
    /\ Cardinality(DOMAIN store_call.tensors_before) = 1
    /\ Cardinality(DOMAIN tensors) = 2
    /\ DOMAIN store_call.tensors_before \subseteq DOMAIN tensors

\* What load_single_tensor(file_path, name) leaves in an empty cache
SingleDecode(file_path, name) == LoadSingleTensorRun(<< >>, file_path, name)

\* What load_tensors(file_path) leaves in an empty cache
AllDecode(file_path) ==
    LoadTensorsLoop(0, ReaderNew(FileOpen(file_path).data, 0), << >>, << >>)

\* The tensor the last call decoded for `name` is the tensor of a descriptor of
\* that name decoded by a new reader, the one load_single_tensor decodes into an
\* empty cache, and the one load_tensors leaves in an empty cache when it gets to
\* the name
DecodedAlike(name) ==
    /\ \E k \in 1..Len(tensors_metadata) :
           /\ tensors_metadata[k].name = name
           /\ DecodeEntry(FileOpen(store_call.file_path).data, k).ok
           /\ tensors[name] = DecodeEntry(FileOpen(store_call.file_path).data, k).tensor
    /\ SingleDecode(store_call.file_path, name).ok
    /\ tensors[name] = SingleDecode(store_call.file_path, name).cache[name]
    /\ name \in DOMAIN AllDecode(store_call.file_path).cache =>
           tensors[name] = AllDecode(store_call.file_path).cache[name]

DecodedNames ==
    IF IsLoadSingle \/ IsLoadTensors THEN Range(store_call.decoded) ELSE {}

\* C27: the tensor a call decodes for a name depends only on the file and on the
\* descriptor: load_tensors and load_single_tensor leave the same tensor for the
\* same name, whatever was decoded before and wherever the reader was.
C27_SameTensorForSameName == \A name \in DecodedNames : DecodedAlike(name)

NameOnce(name) ==
    Cardinality({ k \in 1..Len(tensors_metadata) : tensors_metadata[k].name = name }) = 1

\* C27 as amended: the same, for a name that a single descriptor of the
\* directory carries; for every name the tensor is that of a descriptor of the
\* name decoded by a new reader.
C27_SameTensorForUniqueName ==
    \A name \in DecodedNames :
        /\ \E k \in 1..Len(tensors_metadata) :
               /\ tensors_metadata[k].name = name
               /\ tensors[name] = DecodeEntry(FileOpen(store_call.file_path).data, k).tensor
        /\ NameOnce(name) => DecodedAlike(name)

\* load_tensors has decoded two names one after the other, over a cache that held
\* a tensor
C27_Witness ==
    /\ IsLoadTensors
    /\ Len(store_call.decoded) = 2
    /\ store_call.decoded[1] # store_call.decoded[2]
    /\ store_call.tensors_before # << >>
    /\ store_call.res.ret = "Ok"

(***************************************************************************)
(* Properties of the container parser                                      *)
(***************************************************************************)
\* read_file has been called on the file on disk
ParsedFile == parse_call.op = "read_file" /\ parse_call.path = "model.gguf"

\* The file ends before the last entry its header declares
CutShort == Len(file_bytes) < Len(EncContainer(MagicTag, container))

\* The keys of the metadata entries written to the file, and the value of the last
\* entry written under a key
WrittenKeys == { container.kvs[i][1] : i \in 1..Len(container.kvs) }

LastWritten(key) ==
    container.kvs[CHOOSE i \in 1..Len(container.kvs) :
                    /\ container.kvs[i][1] = key
                    /\ \A j \in (i + 1)..Len(container.kvs) : container.kvs[j][1] # key][2]

Returned(field) == field \in DOMAIN parse_call.res

\* C6 (as claimed): a parse that succeeds on a header declaring N tensors and M
\* metadata entries has a directory of exactly N descriptors and a metadata map of
\* exactly M pairs, and a file cut short fails without a directory or a map.
C6_ParseYieldsDeclaredCounts ==
    ParsedFile =>
        /\ CutShort => parse_call.res.st # "Ok" /\ ~Returned("loaded_data")
        /\ parse_call.res.st = "Ok" =>
               /\ Len(parse_call.res.loaded_data.tensors_metadata)
                      = Len(container.tensors)
               /\ Cardinality(DOMAIN parse_call.res.loaded_data.kv) = Len(container.kvs)

\* C6 (amended): a parse that succeeds on a header declaring N tensors and M metadata
\* entries has a directory of exactly the N descriptors of the file, in order, and a
\* metadata map with one entry per distinct key among the M pairs of the file, holding
\* the last value written under the key (M entries when the keys are pairwise
\* distinct); a whole file under the format's tag parses; a file cut short fails,
\* by an error or a panic, without a directory or a map.
C6_ParseYieldsDeclaredEntries ==
    ParsedFile =>
        /\ CutShort =>
               /\ parse_call.res.st \in {"Err", "panic"}
               /\ ~Returned("loaded_data") /\ ~Returned("val")
        /\ file_bytes = EncContainer(MagicTag, container) => parse_call.res.st = "Ok"
        /\ parse_call.res.st = "Ok" =>
               LET ld == parse_call.res.loaded_data
               IN  /\ ld.nb_tensors = Len(container.tensors)
                   /\ ld.nb_key_vals = Len(container.kvs)
                   /\ ld.version = container.version
                   /\ Len(ld.tensors_metadata) = ld.nb_tensors
                   /\ ld.tensors_metadata = container.tensors
                   /\ DOMAIN ld.kv = WrittenKeys
                   /\ \A key \in WrittenKeys : ld.kv[key] = LastWritten(key)
                   /\ Cardinality(WrittenKeys) = Len(container.kvs) =>
                          Cardinality(DOMAIN ld.kv) = ld.nb_key_vals

\* A file declaring two descriptors and two metadata entries under one key has been
\* parsed: the directory has two descriptors, the map one entry.
C6_Witness ==
    /\ ParsedFile
    /\ parse_call.res.st = "Ok"
    /\ Len(container.kvs) = 2
    /\ container.kvs[1][1] = container.kvs[2][1]
    /\ container.kvs[1][2] # container.kvs[2][2]
    /\ parse_call.res.loaded_data.nb_key_vals = 2
    /\ Cardinality(DOMAIN parse_call.res.loaded_data.kv) = 1
    /\ Len(parse_call.res.loaded_data.tensors_metadata) = 2

\* C7: read_file fails on every file whose first 4 bytes are not the format's tag.
C7_ForeignTagRejected ==
    (ParsedFile /\ SubSeq(file_bytes, 1, Min(4, Len(file_bytes))) # MagicTag) =>
        parse_call.res.st # "Ok"


\* The file is not the whole container under some tag: it was cut or a byte of it
\* was replaced
Damaged ==
    \/ CutShort
    \/ SubSeq(file_bytes, 5, Len(file_bytes))
           # SubSeq(EncContainer(MagicTag, container), 5,
                    Len(EncContainer(MagicTag, container)))

\* C19: read_file ends every read of a damaged file (short read, bytes that are not
\* UTF-8, unknown type code, boolean byte other than 0 and 1) by returning an error
\* without a result; no call ends in a panic.
C19_FailuresAreReturned ==
    ParsedFile =>
        /\ parse_call.res.st \in {"Ok", "Err"}
        /\ parse_call.res.st = "Err" => ~Returned("loaded_data")
        /\ Damaged => parse_call.res.st = "Err"

(***************************************************************************)
(* Properties of the embedding lookup                                      *)
(***************************************************************************)
\* C8: with the embedding tensor loaded and 2-D, hidden size H the smaller and
\* vocabulary size V the larger dimension, lookup_embeddings fails with the error
\* naming the id and V and returns no rows when some id is >= V, and otherwise
\* returns Ok with one row of length H per id, for every tensor kind.
C8_EmbeddingBounds ==
    (/\ store_call.op = "lookup_embeddings"
     /\ store_call.name \in DOMAIN tensors
     /\ Len(tensors[store_call.name].dimensions) = 2) =>
        LET dims == tensors[store_call.name].dimensions
            H == Min(dims[1], dims[2])
            V == IF dims[1] > dims[2] THEN dims[1] ELSE dims[2]
            ids == store_call.token_ids
            res == store_call.res
        IN  IF \E i \in 1..Len(ids) : ids[i] >= V
            THEN /\ res.ret = "Err"
                 /\ res.err.err = "out of vocabulary range"
                 /\ res.err.vocab_size = V
                 /\ res.err.token_id >= V
                 /\ res.err.token_id \in Range(ids)
                 /\ "rows" \notin DOMAIN res
            ELSE /\ res.ret = "Ok"
                 /\ Len(res.rows) = Len(ids)
                 /\ \A i \in 1..Len(ids) : Len(res.rows[i]) = H

\* A lookup of two in-range ids in a quantized embedding tensor with H < V has
\* returned its rows.
C8_Witness ==
    /\ store_call.op = "lookup_embeddings"
    /\ store_call.name \in DOMAIN tensors
    /\ tensors[store_call.name].tensor_type = "Q6K"
    /\ tensors[store_call.name].dimensions = <<2, 1>>
    /\ Len(store_call.token_ids) = 2
    /\ store_call.res.ret = "Ok"
    /\ Len(store_call.res.rows[2]) = 1

(***************************************************************************)
(* Properties of the elementwise kernels                                   *)
(***************************************************************************)

\* The logistic function 1 / (1 + exp(-v))
Logistic(v) == QDiv(Num(1), QAdd(Num(1), Exp(0 - v)))

ElemReturned(op) == elem_call.op = op /\ elem_call.ret = "Ok"

\* C23: swiglu writes output[i] = x[i] * sigmoid(x[i]) * gate[i] where sigmoid
\* is the logistic function for x of both signs, so that sigmoid itself
\* writes the logistic of each input, 1/2 for the input 0, and values that
\* add up to 1 for v and -v.
C23_SwigluUsesLogistic ==
    /\ ElemReturned("sigmoid") =>
          \A i \in 1..Len(elem_x) :
              /\ QEq(elem_out[i], Logistic(elem_x[i]))
              /\ elem_x[i] = 0 => QEq(elem_out[i], Quot(<<1>>, <<2>>))
              /\ QEq(QAdd(elem_out[i], SigmoidAt(0 - elem_x[i])), Num(1))
    /\ ElemReturned("swiglu") =>
          \A i \in 1..Len(elem_x) :
              QEq(elem_out[i],
                  QMul(QMul(Num(elem_x[i]), Logistic(elem_x[i])), Num(elem_y[i])))

\* C24: residual_add rejects a residual or an output whose length differs from
\* the input's before it writes any element of output, and with three equal
\* lengths it returns Ok with output[i] = input[i] + residual[i].
C24_ResidualAddChecksLengths ==
    elem_call.op = "residual_add" =>
        IF Len(elem_y) # Len(elem_x) \/ Len(elem_call.output_before) # Len(elem_x)
        THEN /\ elem_call.ret # "Ok"
             /\ elem_out = elem_call.output_before
        ELSE /\ elem_call.ret = "Ok"
             /\ \A i \in 1..Len(elem_x) : elem_out[i] = elem_x[i] + elem_y[i]

(***************************************************************************)
(* Properties of the descriptor's offset                                   *)
(***************************************************************************)

\* The position immediately after the last directory entry
payload_region_start == Len(EncContainer(MagicTag, container))

\* C25: load_tensor reads the payload of a descriptor from the byte position
\* payload_region_start + offset of the file, so that it decodes what a reader
\* of the payload region alone decodes at the descriptor's offset.
C25_OffsetIsIntoPayloadRegion ==
    parse_call.op = "load_tensor" =>
        LET region == SubSeq(file_bytes, payload_region_start + 1, Len(file_bytes))
            expected == load_tensor(ReaderNew(region, 0), parse_call.info)
        IN  /\ parse_call.res.ok = expected.ok
            /\ parse_call.res.ok => parse_call.res.tensor = expected.tensor

(***************************************************************************)
(* Properties of the tokenizer                                             *)
(***************************************************************************)

\* The positions of `tokens` whose id no earlier encode has returned
NeverEncoded(tokens) == { i \in 1..Len(tokens) : tokens[i] \notin encoded_ids }

\* decode has returned Ok exactly when every id was returned by an earlier
\* encode, and otherwise Err with the number of ids that are missing; an
\* encode that returned Ok is followed by a decode of its ids that returns Ok
DecodeOutcome ==
    /\ tok_call.op = "decode" =>
           /\ tok_call.res.ok <=> NeverEncoded(tok_call.tokens) = {}
           /\ ~tok_call.res.ok =>
                  /\ tok_call.res.err.missing = Cardinality(NeverEncoded(tok_call.tokens))
                  /\ tok_call.res.err.total = Len(tok_call.tokens)
    /\ (tok_call.op = "encode" /\ tok_call.res.ok) =>
           DecodeRun(id_to_piece, tok_call.res.token_ids).ok

\* A decode leaves the piece cache as it was
DecodeKeepsCache ==
    (tok_call'.op = "decode" /\ tok_call' # tok_call) => id_to_piece' = id_to_piece

\* C30: decode(tokens) returns Ok exactly when every id of tokens was returned by
\* an earlier encode of the same Tokenizer, so decode(encode(text)) succeeds; for
\* a list with an id no encode has returned it returns Err reporting how many
\* ids are missing; decode never changes the piece cache.
C30_DecodeNeedsEncodedIds == []DecodeOutcome /\ [][DecodeKeepsCache]_vars

\* After two encodes, a decode of two ids of which one was never returned has
\* failed reporting one missing id
C30_Witness ==
    /\ tok_call.op = "decode"
    /\ Cardinality(encoded_ids) >= 2
    /\ Len(tok_call.tokens) = 2
    /\ tok_call.tokens[1] \in encoded_ids
    /\ tok_call.tokens[2] \notin encoded_ids
    /\ ~tok_call.res.ok
    /\ tok_call.res.err.missing = 1

====
